---- MODULE Spec2Model ----
(***************************************************************************)
(* A model of envguard: the reference extractor (CodeScanner.scanFile),    *)
(* the usage aggregation (scanDirectoryForVars) and the reconciliation of  *)
(* scanCommand, for manifest scopes and flat-file scopes.                  *)
(*                                                                         *)
(* Source text is modelled as a sequence of lexical tokens.  A token is    *)
(* one unit the regular expressions of scanFile treat atomically: the      *)
(* literal "process.env", "if", "const", one punctuation character, one    *)
(* whitespace character " ", one maximal run of [A-Z0-9_] characters that  *)
(* starts with [A-Z_] (a name of NamePool), or "x", one character that is  *)
(* in none of the classes the expressions mention (a lowercase letter).    *)
(***************************************************************************)
EXTENDS Integers, Sequences, FiniteSets, TLC

VARIABLES
  content,      \* scanFile: the text of the file being scanned (token sequence)
  envVars,      \* scanFile: the Map<string, boolean> being built
  step,         \* scanFile: number of patterns already applied (0..7)
  readable,     \* file system: whether readFileSync succeeds on the file scanFile is given
  files,        \* file system: the source files under rootDir, [path, text, readable], in glob order
  serverlessFiles, \* file system: the manifests findServerlessFiles returns
  envFiles,     \* file system: the flat files findEnvFiles returns
  pc,           \* scanCommand: "start", "scan", "returned" or "exited"
  options,      \* scanCommand: [ci, strictMode, detectFallbacks] after the overrides of lines 20-21
  config,       \* scanCommand: [ignoreVars] as loaded by ConfigLoader.loadConfig
  sIdx,         \* scanCommand: index of the next manifest of the loop of line 54
  eIdx,         \* scanCommand: index of the next flat file of the loop of line 186
  allIssues,    \* scanCommand: the issues collected so far
  scope,        \* scanCommand: the reconciliation of the scope processed last
  result,       \* scanCommand: the returned object, NoResult before the return
  exitCode,     \* scanCommand: status passed to process.exit, -1 when it was not called
  disk,         \* file system: the paths of the .env and serverless.yml files on disk
  dpc,          \* discovery: "new", "constructed", "found", "merging" or "merged";
                \* CodeScanner.scan: "files", "serverless" or "scanned"
  scannerExclude, \* CodeScanner: this.excludePatterns, << >> before construction
  targetDir,    \* scanDirectoryForVars: the directory of the declaration file (relative to rootDir)
  globbed,      \* scanDirectoryForVars: the files glob returned
  fIdx,         \* scanDirectoryForVars: index of the next file of the loop of line 372
  merged,       \* scanDirectoryForVars: the Map being built (its envVars)
  manifest,     \* file system: the manifest ServerlessParser.parse is given
  ppc,          \* ServerlessParser.parse: "start", "provider", "functions" or "returned"
  parsed,       \* ServerlessParser.parse: the Map being built (its envVars)
  fnIdx,        \* ServerlessParser.parse: index of the next entry of Object.entries(functions)
  configDisk,   \* file system: the configuration files on disk, as <<directory level, name index>>
  configContent, \* file system: the content of the configuration file findConfigFile returns
  packageJson,  \* file system: the content of rootDir/package.json
  lpc,          \* ConfigLoader.loadConfig: "start", "file", "package", "returned" or "threw"
  loaded,       \* ConfigLoader.loadConfig: the returned configuration, or the error thrown
  templates,    \* file system: the content of .env.example in each directory that holds a .env
  fpc,          \* fixCommand: "start", "loop", "returned" or "idle"
  xIdx,         \* fixCommand: index of the next flat file of the loop of line 51
  fixRuns,      \* fixCommand: the number of completed runs
  priorTemplates, \* the templates as they were when the current run of fixCommand began
  fixUsed,      \* fixCommand: usedVars of the flat file processed last (its names)
  fixResult,    \* fixCommand: "none" before the return, then "success" or "failure"
  gitDir,       \* file system: rootDir/.git exists
  hooksDir,     \* file system: rootDir/.git/hooks exists
  hooksWritable, \* file system: .git and .git/hooks can be written to
  hooks,        \* file system: the file .git/hooks/<type> of each hook type
  hookOrigin,   \* who wrote each hook file: "none" (no file), "user" or "envguard"
  hookBefore,   \* hooks and hookOrigin as they were before the last command
  hookOp,       \* the last hook command and its options
  hookExit,     \* exit status of the last hook command, -1 before the first
  hookOps       \* the number of hook commands run

scanFileVars == <<content, envVars, step>>

fsVars == <<readable, files, serverlessFiles, envFiles>>

dirVars == <<disk, dpc, scannerExclude, targetDir, globbed, fIdx, merged>>

parseVars == <<manifest, ppc, parsed, fnIdx>>

loadVars == <<configDisk, configContent, packageJson, lpc, loaded>>

\* the variables of the operations other than scanFile, scanCommand,
\* scanDirectoryForVars and ServerlessParser.parse
fixVars == <<templates, fpc, xIdx, fixRuns, priorTemplates, fixUsed, fixResult>>

hookVars == <<gitDir, hooksDir, hooksWritable, hooks, hookOrigin, hookBefore, hookOp, hookExit,
              hookOps>>

extVars == <<loadVars, fixVars, hookVars>>

cmdVars == <<pc, options, config, sIdx, eIdx, allIssues, scope, result, exitCode>>

vars == <<content, envVars, step, readable, files, serverlessFiles, envFiles,
          pc, options, config, sIdx, eIdx, allIssues, scope, result, exitCode,
          disk, dpc, scannerExclude, targetDir, globbed, fIdx, merged,
          manifest, ppc, parsed, fnIdx, extVars>>

(***************************************************************************)
(* Bounds                                                                  *)
(***************************************************************************)
MaxNames == 2
MaxFragments == 2

NamePool == <<"AWS_REGION", "API_KEY", "MY_VAR", "NODE_ENV", "STAGE">>
\* the names declaration files (manifest, .env, .env.example) may hold
VarNames == {NamePool[i] : i \in 1..MaxNames}

\* the names the source files reference
CodeNames == {NamePool[1], NamePool[2]}

(***************************************************************************)
(* Maps (JavaScript Map restricted to the keys a run touches)              *)
(***************************************************************************)
EmptyMap == << >>

MapHas(m, k) == k \in DOMAIN m

MapSet(m, k, v) == [x \in (DOMAIN m) \cup {k} |-> IF x = k THEN v ELSE m[x]]

SetIfAbsent_overwrite(m, k, v) == MapSet(m, k, v)

\* if (!envVars.has(name)) envVars.set(name, v)
SetIfAbsent(m, k, v) == IF MapHas(m, k) THEN m ELSE MapSet(m, k, v)

(***************************************************************************)
(* Token helpers                                                           *)
(***************************************************************************)
PE == "process.env"

Tok(t, i) == IF i \in 1..Len(t) THEN t[i] ELSE "EOF"

\* \s
IsWs(tok) == tok = " "

\* [A-Z_][A-Z0-9_]*  (one maximal run)
IsName(tok) == \E i \in 1..Len(NamePool) : NamePool[i] = tok

RECURSIVE SkipWs(_, _)
\* \s* : the index of the first token at or after i that is not whitespace
SkipWs(t, i) == IF IsWs(Tok(t, i)) THEN SkipWs(t, i + 1) ELSE i

\* (\|\||&&|\?\?|\?) : the number of tokens the alternation consumes at i, 0 if none
FallbackOpLen(t, i) ==
  IF Tok(t, i) \in {"||", "&&"} THEN 1
  ELSE IF Tok(t, i) = "?" /\ Tok(t, i + 1) = "?" THEN 2
  ELSE IF Tok(t, i) = "?" THEN 1
  ELSE 0

(***************************************************************************)
(* CodeScanner.scanFile: the seven patterns.  MatchK(t, i) is the index    *)
(* just after the match of pattern K that starts at token i, or 0 when     *)
(* pattern K does not match at i.  LoopK is the `while ((match =           *)
(* pattern.exec(content)) !== null)` loop of a global regular expression:  *)
(* leftmost match first, the next search starting where the match ended.   *)
(***************************************************************************)

\* /process\.env\.([A-Z_][A-Z0-9_]*)\s*(\|\||&&|\?\?|\?)/g
Match1(t, i) ==
  IF /\ Tok(t, i) = PE /\ Tok(t, i + 1) = "." /\ IsName(Tok(t, i + 2))
     /\ FallbackOpLen(t, SkipWs(t, i + 3)) > 0
  THEN SkipWs(t, i + 3) + FallbackOpLen(t, SkipWs(t, i + 3))
  ELSE 0

RECURSIVE Loop1(_, _, _)
Loop1(t, i, m) ==
  IF i > Len(t) THEN m
  ELSE IF Match1(t, i) = 0 THEN Loop1(t, i + 1, m)
  ELSE Loop1(t, Match1(t, i), MapSet(m, t[i + 2], TRUE))

\* the position of process in /if\s*\(\s*!?\s*process\.env\.NAME\s*\)/ for a match at i, 0 if none
CondAccessPos(t, i) ==
  IF Tok(t, i) = "if" /\ Tok(t, SkipWs(t, i + 1)) = "("
  THEN LET a == SkipWs(t, SkipWs(t, i + 1) + 1)
           b == IF Tok(t, a) = "!" THEN SkipWs(t, a + 1) ELSE a
       IN IF /\ Tok(t, b) = PE /\ Tok(t, b + 1) = "." /\ IsName(Tok(t, b + 2))
             /\ Tok(t, SkipWs(t, b + 3)) = ")"
          THEN b ELSE 0
  ELSE 0

\* /if\s*\(\s*!?\s*process\.env\.([A-Z_][A-Z0-9_]*)\s*\)/g
Match2(t, i) ==
  IF CondAccessPos(t, i) = 0 THEN 0 ELSE SkipWs(t, CondAccessPos(t, i) + 3) + 1

RECURSIVE Loop2(_, _, _)
Loop2(t, i, m) ==
  IF i > Len(t) THEN m
  ELSE IF Match2(t, i) = 0 THEN Loop2(t, i + 1, m)
  ELSE Loop2(t, Match2(t, i), SetIfAbsent(m, t[CondAccessPos(t, i) + 2], TRUE))

RECURSIVE FirstClose(_, _)
\* the index of the first "}" at or after i, Len(t) + 1 if there is none
FirstClose(t, i) == IF i > Len(t) \/ t[i] = "}" THEN i ELSE FirstClose(t, i + 1)

\* the index of "{" in /const\s+\{/ for a match at i, 0 if none
BraceOpen(t, i) ==
  IF Tok(t, i) = "const" /\ IsWs(Tok(t, i + 1)) /\ Tok(t, SkipWs(t, i + 1)) = "{"
  THEN SkipWs(t, i + 1) ELSE 0

\* /const\s+\{\s*([^}]+)\s*\}\s*=\s*process\.env/g
Match3(t, i) ==
  IF BraceOpen(t, i) = 0 THEN 0
  ELSE LET o == BraceOpen(t, i)
           c == FirstClose(t, o + 1)
           e == SkipWs(t, c + 1)
           p == SkipWs(t, e + 1)
       IN IF c <= Len(t) /\ c > o + 1 /\ Tok(t, e) = "=" /\ Tok(t, p) = PE
          THEN p + 1 ELSE 0

\* match[1]: the text between the braces (surrounding whitespace is trimmed later)
Group3(t, i) == SubSeq(t, BraceOpen(t, i) + 1, FirstClose(t, BraceOpen(t, i) + 1) - 1)

RECURSIVE Split(_, _)
\* String.prototype.split(sep) for a one-token separator
Split(s, sep) ==
  IF \A j \in 1..Len(s) : s[j] # sep THEN <<s>>
  ELSE LET k == CHOOSE j \in 1..Len(s) : s[j] = sep /\ \A h \in 1..(j - 1) : s[h] # sep
       IN <<SubSeq(s, 1, k - 1)>> \o Split(SubSeq(s, k + 1, Len(s)), sep)

RECURSIVE TrimLeft(_)
TrimLeft(s) == IF s # << >> /\ IsWs(Head(s)) THEN TrimLeft(Tail(s)) ELSE s

RECURSIVE TrimRight(_)
TrimRight(s) == IF s # << >> /\ IsWs(s[Len(s)]) THEN TrimRight(SubSeq(s, 1, Len(s) - 1)) ELSE s

\* String.prototype.trim()
Trim(s) == TrimRight(TrimLeft(s))

\* /^[A-Z_][A-Z0-9_]*$/.test(varName)
IsValidName(s) == Len(s) = 1 /\ IsName(s[1])

\* parts[0].split(':')[0].trim()  with parts = v.split('=')
ItemVarName(v) == Trim(Split(Split(v, "=")[1], ":")[1])

HasDefault_always(v) == Len(Split(v, "=")) > 0

\* parts.length > 1  with parts = v.split('=')
HasDefault(v) == Len(Split(v, "=")) > 1

RECURSIVE DestructItems(_, _, _)
\* vars.forEach(v => ...) over match[1].split(',').map(v => v.trim())
DestructItems(items, k, m) ==
  IF k > Len(items) THEN m
  ELSE LET v == Trim(items[k])
       IN IF IsValidName(ItemVarName(v))
          THEN DestructItems(items, k + 1, SetIfAbsent(m, ItemVarName(v)[1], HasDefault(v)))
          ELSE DestructItems(items, k + 1, m)

RECURSIVE Loop3(_, _, _)
Loop3(t, i, m) ==
  IF i > Len(t) THEN m
  ELSE IF Match3(t, i) = 0 THEN Loop3(t, i + 1, m)
  ELSE Loop3(t, Match3(t, i), DestructItems(Split(Group3(t, i), ","), 1, m))

\* /process\.env\?\.([A-Z_][A-Z0-9_]*)/g
Match4(t, i) ==
  IF Tok(t, i) = PE /\ Tok(t, i + 1) = "?" /\ Tok(t, i + 2) = "." /\ IsName(Tok(t, i + 3))
  THEN i + 4 ELSE 0

RECURSIVE Loop4(_, _, _)
Loop4(t, i, m) ==
  IF i > Len(t) THEN m
  ELSE IF Match4(t, i) = 0 THEN Loop4(t, i + 1, m)
  ELSE Loop4(t, Match4(t, i), SetIfAbsent(m, t[i + 3], TRUE))

\* /process\.env\[['"]([A-Z_][A-Z0-9_]*)['"\]]/g : the closing class is one of ' " ]
Match7(t, i) ==
  IF /\ Tok(t, i) = PE /\ Tok(t, i + 1) = "[" /\ Tok(t, i + 2) = "'"
     /\ IsName(Tok(t, i + 3)) /\ Tok(t, i + 4) \in {"'", "]"}
  THEN i + 5 ELSE 0

\* /process\.env\[['"]([A-Z_][A-Z0-9_]*)['"\]]\s*(\|\||&&|\?\?|\?)/g
Match5(t, i) ==
  IF Match7(t, i) # 0 /\ FallbackOpLen(t, SkipWs(t, i + 5)) > 0
  THEN SkipWs(t, i + 5) + FallbackOpLen(t, SkipWs(t, i + 5))
  ELSE 0

RECURSIVE Loop5(_, _, _)
Loop5(t, i, m) ==
  IF i > Len(t) THEN m
  ELSE IF Match5(t, i) = 0 THEN Loop5(t, i + 1, m)
  ELSE Loop5(t, Match5(t, i), MapSet(m, t[i + 3], TRUE))

\* /process\.env\.([A-Z_][A-Z0-9_]*)/g
Match6(t, i) ==
  IF Tok(t, i) = PE /\ Tok(t, i + 1) = "." /\ IsName(Tok(t, i + 2)) THEN i + 3 ELSE 0

RECURSIVE Loop6(_, _, _)
Loop6(t, i, m) ==
  IF i > Len(t) THEN m
  ELSE IF Match6(t, i) = 0 THEN Loop6(t, i + 1, m)
  ELSE Loop6(t, Match6(t, i), SetIfAbsent(m, t[i + 2], FALSE))

RECURSIVE Loop7(_, _, _)
Loop7(t, i, m) ==
  IF i > Len(t) THEN m
  ELSE IF Match7(t, i) = 0 THEN Loop7(t, i + 1, m)
  ELSE Loop7(t, Match7(t, i), SetIfAbsent(m, t[i + 3], FALSE))

\* the map scanFile returns for a readable file with text t
scanFile(t) ==
  Loop7(t, 1, Loop6(t, 1, Loop5(t, 1, Loop4(t, 1, Loop3(t, 1, Loop2(t, 1, Loop1(t, 1, EmptyMap)))))))

(***************************************************************************)
(* Source texts: up to MaxFragments statements, each one access form,      *)
(* separated by ";".                                                       *)
(***************************************************************************)
Tails ==
  {<< >>, <<" ", "||", "x">>, <<"&&", "x">>, <<"?", "?", "x">>, <<" ", "?", "x", ":", "x">>,
   <<"x", "||", "x">>}

DottedForms == {<<PE, ".", n>> \o tl : n \in CodeNames, tl \in Tails}

OptionalForms == {<<PE, "?", ".", n>> : n \in CodeNames}

BracketForms ==
  {<<PE, "[", "'", n, "'", "]">> \o tl : n \in CodeNames, tl \in {<< >>, <<" ", "||", "x">>}}

ConditionalForms ==
  {<<"if", "(">> \o neg \o <<PE, ".", n>> \o <<")">> :
      n \in CodeNames, neg \in {<< >>, <<" ", "!">>}}

DestructEntries(n) ==
  {<<n>>, <<n, " ", "=", " ", "x">>, <<n, ":", " ", "x">>, <<n, ":", " ", "x", "=", "x">>}

DestructForms ==
  {<<"const", " ", "{", " ">> \o e \o <<" ", "}", " ", "=", " ", PE>> :
      e \in DestructEntries(NamePool[1])}
  \cup
  {<<"const", " ", "{">> \o e1 \o <<",", " ">> \o e2 \o <<"}", "=", PE>> :
      e1 \in DestructEntries(NamePool[1]), e2 \in {<<NamePool[2]>>, <<NamePool[2], "=", "x">>}}

Fragments == DottedForms \cup OptionalForms \cup BracketForms \cup ConditionalForms \cup DestructForms

RECURSIVE TextsOf(_)
\* the texts of exactly k statements
TextsOf(k) ==
  IF k = 0 THEN {<< >>}
  ELSE {f \o <<";">> \o t : f \in Fragments, t \in TextsOf(k - 1)}

TextsUpTo(max) == UNION {TextsOf(k) : k \in 0..max}

(***************************************************************************)
(* scanFile as a state machine: one step per pattern, in source order.     *)
(***************************************************************************)
NoResult == [success |-> FALSE, issues |-> << >>, none |-> TRUE]

NoScope == [kind |-> "none"]

\* the state of scanCommand before it is called
CmdIdle ==
  /\ pc = "idle"
  /\ options = [ci |-> FALSE, strictMode |-> FALSE, detectFallbacks |-> TRUE]
  /\ config = [ignoreVars |-> {}, exclude |-> << >>]
  /\ sIdx = 1 /\ eIdx = 1
  /\ allIssues = << >>
  /\ scope = NoScope
  /\ result = NoResult
  /\ exitCode = -1

\* the state of scanDirectoryForVars before it is called
DirIdle ==
  /\ disk = << >> /\ dpc = "idle" /\ scannerExclude = << >>
  /\ targetDir = << >> /\ globbed = << >>
  /\ fIdx = 1 /\ merged = EmptyMap

\* the state of ServerlessParser.parse before it is called
ParseIdle ==
  /\ manifest = [kind |-> "none"] /\ ppc = "idle" /\ parsed = EmptyMap /\ fnIdx = 1

NoConfig == [kind |-> "none"]

\* the state of ConfigLoader.loadConfig before it is called
LoadIdle ==
  /\ configDisk = {} /\ configContent = NoConfig /\ packageJson = NoConfig
  /\ lpc = "idle" /\ loaded = NoConfig

\* the state of fixCommand before it is called
FixIdle ==
  /\ templates = << >> /\ fpc = "idle" /\ xIdx = 1 /\ fixRuns = 0
  /\ priorTemplates = << >> /\ fixUsed = {} /\ fixResult = "none"

\* the state of the operations a specification does not run
HOOK_TYPES == {"pre-commit", "pre-push"}

NoHook == [exists |-> FALSE, text |-> << >>]

NoHookOp == [cmd |-> "none", type |-> "none", force |-> FALSE]

\* the state of the hook commands before a repository is looked at
HookIdle ==
  /\ gitDir = FALSE /\ hooksDir = FALSE /\ hooksWritable = FALSE
  /\ hooks = [t \in HOOK_TYPES |-> NoHook]
  /\ hookOrigin = [t \in HOOK_TYPES |-> "none"]
  /\ hookBefore = [hooks |-> hooks, origin |-> hookOrigin]
  /\ hookOp = NoHookOp /\ hookExit = -1 /\ hookOps = 0

ExtIdle == LoadIdle /\ FixIdle /\ HookIdle

\* scanFile is given either a readable file with one of the texts or a file
\* readFileSync throws on
InitScanFile ==
  /\ \/ readable = TRUE /\ content \in TextsUpTo(MaxFragments)
     \/ readable = FALSE /\ content = << >>
  /\ envVars = EmptyMap
  /\ step = 0
  /\ files = << >> /\ serverlessFiles = << >> /\ envFiles = << >>
  /\ CmdIdle
  /\ DirIdle
  /\ ParseIdle
  /\ ExtIdle

\* lines 73-74 and 151-155: readFileSync throws, the catch block logs the
\* error and scanFile returns the map it has, which is empty
ReadFails ==
  /\ step = 0 /\ ~readable
  /\ step' = 7
  /\ UNCHANGED <<extVars, parseVars, content, envVars, fsVars, cmdVars, dirVars>>

Pattern1 ==
  /\ step = 0 /\ readable /\ envVars' = Loop1(content, 1, envVars) /\ step' = 1
  /\ UNCHANGED <<extVars, parseVars, content, fsVars, cmdVars, dirVars>>

Pattern2 ==
  /\ step = 1 /\ envVars' = Loop2(content, 1, envVars) /\ step' = 2
  /\ UNCHANGED <<extVars, parseVars, content, fsVars, cmdVars, dirVars>>

Pattern3 ==
  /\ step = 2 /\ envVars' = Loop3(content, 1, envVars) /\ step' = 3
  /\ UNCHANGED <<extVars, parseVars, content, fsVars, cmdVars, dirVars>>

Pattern4 ==
  /\ step = 3 /\ envVars' = Loop4(content, 1, envVars) /\ step' = 4
  /\ UNCHANGED <<extVars, parseVars, content, fsVars, cmdVars, dirVars>>

Pattern5 ==
  /\ step = 4 /\ envVars' = Loop5(content, 1, envVars) /\ step' = 5
  /\ UNCHANGED <<extVars, parseVars, content, fsVars, cmdVars, dirVars>>

Pattern6 ==
  /\ step = 5 /\ envVars' = Loop6(content, 1, envVars) /\ step' = 6
  /\ UNCHANGED <<extVars, parseVars, content, fsVars, cmdVars, dirVars>>

Pattern7 ==
  /\ step = 6 /\ envVars' = Loop7(content, 1, envVars) /\ step' = 7
  /\ UNCHANGED <<extVars, parseVars, content, fsVars, cmdVars, dirVars>>

NextScanFile == ReadFails \/ Pattern1 \/ Pattern2 \/ Pattern3 \/ Pattern4 \/ Pattern5 \/ Pattern6 \/ Pattern7


SpecScanFile == InitScanFile /\ [][NextScanFile]_vars

\* scanFile has returned: envVars is its result
Returned == step = 7

(***************************************************************************)
(* Known-variable registry (constants/knownEnvVars.ts)                     *)
(***************************************************************************)
AWS_PROVIDED_VARS ==
  {"AWS_REGION", "AWS_DEFAULT_REGION", "AWS_EXECUTION_ENV", "AWS_LAMBDA_FUNCTION_NAME",
   "AWS_LAMBDA_FUNCTION_VERSION", "AWS_LAMBDA_FUNCTION_MEMORY_SIZE",
   "AWS_LAMBDA_LOG_GROUP_NAME", "AWS_LAMBDA_LOG_STREAM_NAME", "AWS_ACCESS_KEY_ID",
   "AWS_SECRET_ACCESS_KEY", "AWS_SESSION_TOKEN", "AWS_LAMBDA_RUNTIME_API", "_HANDLER",
   "_X_AMZN_TRACE_ID", "LAMBDA_TASK_ROOT", "LAMBDA_RUNTIME_DIR", "TZ"}

NODEJS_RUNTIME_VARS ==
  {"NODE_ENV", "NODE_OPTIONS", "PATH", "HOME", "USER", "LANG", "LC_ALL", "PWD", "OLDPWD",
   "SHELL", "TERM"}

CI_CD_VARS ==
  {"CI", "CONTINUOUS_INTEGRATION", "GITHUB_ACTIONS", "GITLAB_CI", "CIRCLECI", "TRAVIS",
   "JENKINS_URL", "BUILDKITE"}

SERVERLESS_FRAMEWORK_VARS == {"IS_OFFLINE", "SLS_OFFLINE", "SERVERLESS_STAGE", "SERVERLESS_REGION"}

TEST_VARS == {"JEST_WORKER_ID", "VITEST_WORKER_ID", "MOCHA_COLORS"}

KNOWN_RUNTIME_VARS ==
  AWS_PROVIDED_VARS \cup NODEJS_RUNTIME_VARS \cup CI_CD_VARS \cup SERVERLESS_FRAMEWORK_VARS
    \cup TEST_VARS

isKnownRuntimeVar(varName) == varName \in KNOWN_RUNTIME_VARS

Null == "null"

getRuntimeVarCategory_withoutAws(varName) ==
  IF varName \in NODEJS_RUNTIME_VARS THEN "Node.js Runtime"
  ELSE IF varName \in CI_CD_VARS THEN "CI/CD"
  ELSE IF varName \in SERVERLESS_FRAMEWORK_VARS THEN "Serverless Framework"
  ELSE IF varName \in TEST_VARS THEN "Testing"
  ELSE Null

getRuntimeVarCategory(varName) ==
  IF varName \in AWS_PROVIDED_VARS THEN "AWS Lambda"
  ELSE IF varName \in NODEJS_RUNTIME_VARS THEN "Node.js Runtime"
  ELSE IF varName \in CI_CD_VARS THEN "CI/CD"
  ELSE IF varName \in SERVERLESS_FRAMEWORK_VARS THEN "Serverless Framework"
  ELSE IF varName \in TEST_VARS THEN "Testing"
  ELSE Null

\* ConfigLoader.shouldIgnoreVar
shouldIgnoreVar(varName, cfg) == varName \in cfg.ignoreVars

(***************************************************************************)
(* Usage aggregation (scanDirectoryForVars, scanDirectoryForCodeVars)      *)
(***************************************************************************)
RootDir == << >>

\* path.dirname of a relative path given as its sequence of segments
Dirname(path) == SubSeq(path, 1, Len(path) - 1)

AtOrBelow_sameDir(d, relativeDir) == d = relativeDir

\* d is relativeDir itself or a directory below it
AtOrBelow(d, relativeDir) ==
  Len(relativeDir) <= Len(d) /\ SubSeq(d, 1, Len(relativeDir)) = relativeDir

\* p.includes('*') for a pattern given as its sequence of "/"-separated segments
IncludesStar(p) == \E i \in 1..Len(p) : p[i] \in {"*", "**"}

\* p => p.includes('*') ? p : `**/${p}/**`
NormalizePattern(p) == IF IncludesStar(p) THEN p ELSE <<"**">> \o p \o <<"**">>

\* patterns.map(p => p.includes('*') ? p : `**/${p}/**`)
NormalizeAll(patterns) == [i \in 1..Len(patterns) |-> NormalizePattern(patterns[i])]

RECURSIVE GlobMatch(_, _)
\* glob matching of a path (sequence of segments) against a pattern: "**"
\* stands for any number of segments, "*" for one segment
GlobMatch(pat, path) ==
  IF pat = << >> THEN path = << >>
  ELSE IF Head(pat) = "**"
  THEN \/ GlobMatch(Tail(pat), path)
       \/ path # << >> /\ GlobMatch(pat, Tail(path))
  ELSE /\ path # << >>
       /\ Head(pat) \in {"*", Head(path)}
       /\ GlobMatch(Tail(pat), Tail(path))

\* the `ignore` option of glob: the path matches one of the patterns
Ignored(path, ignore) == \E i \in 1..Len(ignore) : GlobMatch(ignore[i], path)

\* lines 363 and 401: defaultIgnore
DefaultIgnore ==
  <<<<"**", "node_modules", "**">>, <<"**", "dist", "**">>, <<"**", "build", "**">>,
    <<"**", ".git", "**">>>>

\* glob(`${relativeDir}/**/*.{js,ts,jsx,tsx,mjs,cjs}`, {ignore: [...defaultIgnore, ...customIgnore]}):
\* the source files at or below relativeDir that no ignore pattern matches
GlobSources(relativeDir, excludePatterns) ==
  SelectSeq(files, LAMBDA f :
    /\ AtOrBelow(Dirname(f.path), relativeDir)
    /\ ~Ignored(f.path, DefaultIgnore \o NormalizeAll(excludePatterns)))

MergeVars_lastWins(acc, relativePath, fileVars) ==
  [n \in (DOMAIN acc) \cup (DOMAIN fileVars) |->
     IF n \in DOMAIN fileVars
     THEN [locations |-> (IF n \in DOMAIN acc THEN acc[n].locations ELSE << >>) \o <<relativePath>>,
           hasFallback |-> fileVars[n]]
     ELSE acc[n]]

\* the inner loop `for (const [varName, hasFallback] of vars.entries())` for one file
MergeVars(acc, relativePath, fileVars) ==
  [n \in (DOMAIN acc) \cup (DOMAIN fileVars) |->
     IF n \in DOMAIN fileVars
     THEN [locations |-> (IF n \in DOMAIN acc THEN acc[n].locations ELSE << >>) \o <<relativePath>>,
           hasFallback |-> (IF n \in DOMAIN acc THEN acc[n].hasFallback ELSE FALSE) \/ fileVars[n]]
     ELSE acc[n]]

scanFileOf_readsAnyway(f) == scanFile(f.text)

\* scanner.scanFile(file): the empty map when the file cannot be read (lines 151-155)
scanFileOf(f) == IF f.readable THEN scanFile(f.text) ELSE EmptyMap

RECURSIVE MergeFiles(_, _, _)
\* the loop `for (const file of files)` from file k on
MergeFiles(fs, k, acc) ==
  IF k > Len(fs) THEN acc
  ELSE MergeFiles(fs, k + 1, MergeVars(acc, fs[k].path, scanFileOf(fs[k])))

scanDirectoryForVars(dir, excludePatterns) ==
  MergeFiles(GlobSources(dir, excludePatterns), 1, EmptyMap)

scanDirectoryForCodeVars(dir, excludePatterns) ==
  MergeFiles(GlobSources(dir, excludePatterns), 1, EmptyMap)

(***************************************************************************)
(* Issues                                                                  *)
(***************************************************************************)
\* the names of S in a fixed iteration order (the order of NamePool)
InOrder(S) == SelectSeq(NamePool, LAMBDA n : n \in S)

Issue(type, severity, varName, details, locations) ==
  [type |-> type, severity |-> severity, varName |-> varName, details |-> details,
   locations |-> locations]

\* the suppression test of lines 92 and 206: the name is skipped, not evaluated
IsSuppressed_never(varName, strictMode, cfg) == FALSE

IsSuppressed(varName, strictMode, cfg) ==
  ~strictMode /\ (isKnownRuntimeVar(varName) \/ shouldIgnoreVar(varName, cfg))

\* lines 93 and 209
SkipCategory(varName, cfg) ==
  IF shouldIgnoreVar(varName, cfg) THEN "Custom (from config)" ELSE getRuntimeVarCategory(varName)

\* the entries pushed to skippedRuntimeVars / skippedVarsInScope
SkippedOf(candidates, strictMode, cfg) ==
  {[varName |-> v, category |-> SkipCategory(v, cfg)] :
     v \in {w \in candidates : IsSuppressed(w, strictMode, cfg) /\ SkipCategory(w, cfg) # Null}}

MissingIsError_noToggle(detectFallbacks, hasFallback) == ~hasFallback

\* the filter of line 119: item => !detectFallbacks || !item.hasFallback
MissingIsError(detectFallbacks, hasFallback) == ~detectFallbacks \/ ~hasFallback

UnusedReported_always(varName, strictMode, cfg) == TRUE

\* lines 75-76: strictMode || !isIgnored
UnusedReported(varName, strictMode, cfg) ==
  strictMode \/ ~(isKnownRuntimeVar(varName) \/ shouldIgnoreVar(varName, cfg))

\* the issues one iteration of the manifest loop pushes to allIssues (lines 70-160)
ServerlessIssues(serverlessVars, usedVars, strictMode, detectFallbacks, cfg) ==
  LET unusedServerlessVars ==
        {v \in serverlessVars : ~MapHas(usedVars, v) /\ UnusedReported(v, strictMode, cfg)}
      missingFromServerless ==
        {v \in DOMAIN usedVars : v \notin serverlessVars /\ ~IsSuppressed(v, strictMode, cfg)}
      errors == {v \in missingFromServerless : MissingIsError(detectFallbacks, usedVars[v].hasFallback)}
      warnings == {v \in missingFromServerless : detectFallbacks /\ usedVars[v].hasFallback}
      UnusedIssue(v) ==
        Issue("unused", "info", v, "Defined in serverless.yml but never used in code", << >>)
      ErrorIssue(v) ==
        Issue("missing", "error", v,
              IF detectFallbacks /\ usedVars[v].hasFallback
              THEN "Used in code with fallback but not defined in serverless.yml"
              ELSE "Used in code but not defined in serverless.yml",
              usedVars[v].locations)
      WarningIssue(v) ==
        Issue("missing", "warning", v,
              "Used in code with fallback but not defined in serverless.yml",
              usedVars[v].locations)
  IN [i \in 1..Len(InOrder(unusedServerlessVars)) |-> UnusedIssue(InOrder(unusedServerlessVars)[i])]
       \o [i \in 1..Len(InOrder(errors)) |-> ErrorIssue(InOrder(errors)[i])]
       \o [i \in 1..Len(InOrder(warnings)) |-> WarningIssue(InOrder(warnings)[i])]

FilterUsed_keepAll(allUsedVars, strictMode, cfg) == allUsedVars

\* lines 198-214: the usage the flat-file reconciliation is given
FilterUsed(allUsedVars, strictMode, cfg) ==
  [v \in {w \in DOMAIN allUsedVars : ~IsSuppressed(w, strictMode, cfg)} |-> allUsedVars[v]]

\* EnvAnalyzer.analyze
analyze(usage, declared, exampleNames, detectFallbacks) ==
  LET missing == {v \in DOMAIN usage : v \notin declared}
      unused == {v \in declared : v \notin DOMAIN usage}
      undocumented == {v \in DOMAIN usage : v \in declared /\ v \notin exampleNames}
      MissingIssue(v) ==
        Issue("missing",
              IF ~detectFallbacks \/ ~usage[v].hasFallback THEN "error" ELSE "warning",
              v, "missing", usage[v].locations)
      UnusedIssue(v) == Issue("unused", "info", v, "unused", << >>)
      UndocumentedIssue(v) ==
        Issue("undocumented",
              IF detectFallbacks /\ usage[v].hasFallback THEN "info" ELSE "warning",
              v, "undocumented", usage[v].locations)
  IN [i \in 1..Len(InOrder(missing)) |-> MissingIssue(InOrder(missing)[i])]
       \o [i \in 1..Len(InOrder(unused)) |-> UnusedIssue(InOrder(unused)[i])]
       \o [i \in 1..Len(InOrder(undocumented)) |-> UndocumentedIssue(InOrder(undocumented)[i])]

(***************************************************************************)
(* scanCommand as a state machine: Start (lines 13-51), one step per       *)
(* manifest (lines 54-183), one step per flat file (lines 186-307), and    *)
(* the summary (lines 309-348).                                            *)
(***************************************************************************)
MaxFiles == 2

FileNames == <<"a.js", "b.ts", "c.js", "d.ts">>

\* the texts of the source files: nothing, one bare access, or one access with a fallback
SourceTexts ==
  {<< >>}
    \cup {<<PE, ".", n, ";">> : n \in CodeNames}
    \cup {<<PE, ".", n, " ", "||", "x", ";">> : n \in CodeNames}

\* the source trees: up to MaxFiles files in rootDir
SourceTreesUpTo(max) ==
  UNION {{[k \in 1..len |-> [path |-> <<FileNames[k]>>, text |-> txt[k], readable |-> TRUE]] :
            txt \in [1..len -> SourceTexts]} : len \in 0..max}

\* the names configuration files may list in ignoreVars
IgnorePool == {NamePool[1], NamePool[2]}

\* the ignoreVars lists of the configuration files: none, or every name of the pool
IgnoreSets == {{}, IgnorePool}

\* the names .env.example may hold: no example file, a partial one, a complete one
ExampleSets == {{}, {NamePool[1]}, VarNames}

Init ==
  /\ content = << >> /\ envVars = EmptyMap /\ step = 0 /\ readable = TRUE
  /\ DirIdle
  /\ ParseIdle
  /\ ExtIdle
  /\ files \in SourceTreesUpTo(MaxFiles)
  /\ serverlessFiles \in {<< >>, <<<<"serverless.yml">>>>}
  /\ envFiles \in {<< >>, <<<<".env">>>>}
  /\ pc = "start"
  /\ options = [ci |-> FALSE, strictMode |-> FALSE, detectFallbacks |-> TRUE]
  /\ config = [ignoreVars |-> {}, exclude |-> << >>]
  /\ sIdx = 1 /\ eIdx = 1
  /\ allIssues = << >>
  /\ scope = NoScope
  /\ result = NoResult
  /\ exitCode = -1

Undefined == "undefined"

\* an optional boolean of the options object or of the configuration file
OptBool == {Undefined, "true", "false"}

\* lines 13-51: load the configuration, resolve the options, discover the
\* declaration files; from is the value of pc before the call, in holds the
\* values the options and the configuration file may have
StartWith(from, in) ==
  /\ pc = from
  /\ \E optCi \in in.optCi, optStrict \in in.optStrict, optDetect \in in.optDetect,
        cfgStrict \in in.cfgStrict, cfgDetect \in in.cfgDetect,
        cfgIgnore \in in.cfgIgnore, cfgExclude \in in.cfgExclude :
       /\ config' = [ignoreVars |-> cfgIgnore, exclude |-> cfgExclude]
       /\ options' =
            [ci |-> (optCi = "true"),
             strictMode |-> IF optStrict # Undefined THEN optStrict = "true"
                            ELSE cfgStrict = "true",
             detectFallbacks |->
               IF optDetect # Undefined THEN optDetect = "true"
               ELSE IF cfgDetect # Undefined THEN cfgDetect = "true" ELSE TRUE]
  /\ IF envFiles = << >> /\ serverlessFiles = << >>
     THEN /\ pc' = "returned"
          /\ result' = [success |-> FALSE, issues |-> << >>]
     ELSE /\ pc' = "scan"
          /\ UNCHANGED result
  /\ UNCHANGED <<extVars, parseVars, scanFileVars, fsVars, dirVars, sIdx, eIdx, allIssues, scope, exitCode>>

\* scanCommand called with any options, in a project with any configuration
Start ==
  /\ pc = "start"
  /\ StartWith("start",
               [optCi |-> {Undefined, "true"}, optStrict |-> OptBool, optDetect |-> OptBool,
                cfgStrict |-> {"true", "false"}, cfgDetect |-> OptBool,
                cfgIgnore |-> IgnoreSets, cfgExclude |-> {<< >>}])

\* lines 54-183: one iteration of the manifest loop; declared is what
\* serverlessParser.parse returns for the manifest
ProcessServerless ==
  /\ pc = "scan"
  /\ sIdx <= Len(serverlessFiles)
  /\ \E declared \in SUBSET VarNames,
        usedVars \in {scanDirectoryForCodeVars(Dirname(serverlessFiles[sIdx]), config.exclude)} :
       \E issues \in {ServerlessIssues(declared, usedVars, options.strictMode,
                                       options.detectFallbacks, config)} :
          /\ allIssues' = allIssues \o issues
          /\ scope' = [kind |-> "serverless", declared |-> declared, allUsed |-> usedVars,
                       example |-> {}, issues |-> issues,
                       skipped |-> SkippedOf({v \in DOMAIN usedVars : v \notin declared},
                                             options.strictMode, config)]
  /\ sIdx' = sIdx + 1
  /\ UNCHANGED <<extVars, parseVars, scanFileVars, fsVars, dirVars, pc, options, config, eIdx, result, exitCode>>

\* lines 186-307: one iteration of the flat-file loop; declared is what
\* parser.parse returns for .env, example what parser.parseExample returns
ProcessEnvWith(declaredSets, exampleSets) ==
  /\ pc = "scan"
  /\ sIdx > Len(serverlessFiles)
  /\ eIdx <= Len(envFiles)
  /\ \E declared \in declaredSets, example \in exampleSets,
        allUsedVars \in {scanDirectoryForVars(Dirname(envFiles[eIdx]), config.exclude)} :
       \E usedVars \in {FilterUsed(allUsedVars, options.strictMode, config)} :
          \E issues \in {analyze(usedVars, declared, example, options.detectFallbacks)} :
             /\ allIssues' = allIssues \o issues
             /\ scope' = [kind |-> "env", declared |-> declared, allUsed |-> allUsedVars,
                          example |-> example, issues |-> issues,
                          skipped |-> SkippedOf(DOMAIN allUsedVars, options.strictMode,
                                                config)]
  /\ eIdx' = eIdx + 1
  /\ UNCHANGED <<extVars, parseVars, scanFileVars, fsVars, dirVars, pc, options, config, sIdx, result, exitCode>>

\* the flat-file loop over a .env and a .env.example with any content
ProcessEnv ==
  /\ pc = "scan"
  /\ ProcessEnvWith(SUBSET VarNames, ExampleSets)

NoIssues_ignoringInfo(issues) == \A i \in DOMAIN issues : issues[i].severity = "info"

\* line 311: allIssues.length === 0
NoIssues(issues) == Len(issues) = 0

\* lines 309-348: the summary, the exit in CI mode, the returned object
Summary ==
  /\ pc = "scan"
  /\ sIdx > Len(serverlessFiles)
  /\ eIdx > Len(envFiles)
  /\ IF NoIssues(allIssues)
     THEN /\ result' = [success |-> TRUE, issues |-> << >>]
          /\ pc' = "returned"
          /\ UNCHANGED exitCode
     ELSE IF options.ci
     THEN /\ exitCode' = 1
          /\ pc' = "exited"
          /\ UNCHANGED result
     ELSE /\ result' = [success |-> FALSE, issues |-> allIssues]
          /\ pc' = "returned"
          /\ UNCHANGED exitCode
  /\ UNCHANGED <<extVars, parseVars, scanFileVars, fsVars, dirVars, options, config, sIdx, eIdx, allIssues, scope>>

Next == Start \/ ProcessServerless \/ ProcessEnv \/ Summary

Spec == Init /\ [][Next]_vars

(***************************************************************************)
(* Discovery and aggregation as a state machine: the construction of the   *)
(* CodeScanner, findEnvFiles and findServerlessFiles, then for one         *)
(* declaration file the glob and the file loop of scanDirectoryForVars     *)
(* (scanDirectoryForCodeVars has the same body).                           *)
(***************************************************************************)
\* line 9
ALWAYS_EXCLUDE == <<<<"node_modules">>, <<".git">>>>

\* line 12
DEFAULT_EXCLUDE == <<<<"dist">>, <<"build">>>>

RECURSIVE Dedupe(_)
\* [...new Set(list)]: the first occurrence of each element, in order
Dedupe(list) ==
  IF list = << >> THEN << >>
  ELSE LET front == Dedupe(SubSeq(list, 1, Len(list) - 1))
           last == list[Len(list)]
       IN IF \E i \in 1..Len(front) : front[i] = last THEN front ELSE Append(front, last)

CodeScannerExcludes_asGiven(list) == list

\* the constructor, lines 19-24: this.excludePatterns
CodeScannerExcludes(list) == Dedupe(ALWAYS_EXCLUDE \o list)

\* scanCommand lines 26-32: the list it passes to the constructor
ScanCommandExcludes(cfgExclude) ==
  <<<<"node_modules">>, <<"dist">>, <<"build">>, <<".git">>>> \o cfgExclude

\* findEnvFiles: glob('**/.env', {ignore: ignorePatterns})
findEnvFiles(excludes) ==
  SelectSeq(disk, LAMBDA d : d[Len(d)] = ".env" /\ ~Ignored(d, NormalizeAll(excludes)))

\* findServerlessFiles: glob('**/serverless.{yml,yaml}', {ignore: ignorePatterns})
findServerlessFiles(excludes) ==
  SelectSeq(disk, LAMBDA d : d[Len(d)] \in {"serverless.yml", "serverless.yaml"}
                             /\ ~Ignored(d, NormalizeAll(excludes)))

\* CodeScanner.scan lines 31-39: the source files its glob returns
scanGlob(excludes) == SelectSeq(files, LAMBDA f : ~Ignored(f.path, NormalizeAll(excludes)))

\* the places a source file may be at, in glob order
SourcePaths ==
  <<<<"a.js">>, <<"svc", "b.ts">>, <<"svc", "node_modules", "c.js">>, <<"tmp", "d.js">>>>

\* what a source file may be: unreadable, or readable with one access
SourceKinds ==
  {[text |-> <<PE, ".", NamePool[2], ";">>, readable |-> FALSE]}
    \cup {[text |-> <<PE, ".", NamePool[1], ";">>, readable |-> TRUE],
          [text |-> <<PE, ".", NamePool[1], " ", "||", "x", ";">>, readable |-> TRUE],
          [text |-> <<PE, ".", NamePool[2], ";">>, readable |-> TRUE]}

\* the files of a tree: those of SourcePaths picked by the set S, in glob order
TreeOn(S, kind) ==
  LET idx == SelectSeq([i \in 1..Len(SourcePaths) |-> i], LAMBDA i : i \in S)
  IN [k \in 1..Len(idx) |->
        [path |-> SourcePaths[idx[k]], text |-> kind[idx[k]].text,
         readable |-> kind[idx[k]].readable]]

\* the source trees with directories: up to MaxFiles files
DirTreesUpTo(max) ==
  UNION {{TreeOn(S, kind) : kind \in [S -> SourceKinds]} :
           S \in {T \in SUBSET (1..Len(SourcePaths)) : Cardinality(T) <= max}}

\* the declaration files on disk
DiskSets ==
  {<<<<".env">>, <<"svc", ".env">>, <<"svc", "serverless.yml">>>>,
   <<<<".env">>, <<"svc", "node_modules", "pkg", ".env">>, <<"tmp", "serverless.yaml">>>>,
   <<<<".git", "serverless.yml">>, <<"svc", ".env">>>>}

\* the exclude lists of the configuration file
ConfigExcludes == {<< >>, <<<<"tmp">>>>, <<<<"svc", "*">>, <<".git">>>>}

InitDiscover ==
  /\ content = << >> /\ envVars = EmptyMap /\ step = 0 /\ readable = TRUE
  /\ files \in DirTreesUpTo(MaxFiles)
  /\ disk \in DiskSets
  /\ serverlessFiles = << >> /\ envFiles = << >>
  /\ pc = "idle"
  /\ options = [ci |-> FALSE, strictMode |-> FALSE, detectFallbacks |-> TRUE]
  /\ \E cx \in ConfigExcludes : config = [ignoreVars |-> {}, exclude |-> cx]
  /\ sIdx = 1 /\ eIdx = 1 /\ allIssues = << >> /\ scope = NoScope
  /\ result = NoResult /\ exitCode = -1
  /\ dpc = "new" /\ scannerExclude = << >>
  /\ targetDir = << >> /\ globbed = << >> /\ fIdx = 1 /\ merged = EmptyMap
  /\ ParseIdle
  /\ ExtIdle

\* new CodeScanner(rootDir, list): by scanCommand (line 33), with the default
\* parameter (fixCommand), or with an empty list
Construct ==
  /\ dpc = "new"
  /\ \E list \in {ScanCommandExcludes(config.exclude), DEFAULT_EXCLUDE, << >>} :
       scannerExclude' = CodeScannerExcludes(list)
  /\ dpc' = "constructed"
  /\ UNCHANGED <<extVars, parseVars, scanFileVars, fsVars, cmdVars, disk, targetDir, globbed, fIdx, merged>>

\* lines 34-35: scanner.findEnvFiles() and scanner.findServerlessFiles()
Discover ==
  /\ dpc = "constructed"
  /\ envFiles' = findEnvFiles(scannerExclude)
  /\ serverlessFiles' = findServerlessFiles(scannerExclude)
  /\ dpc' = "found"
  /\ UNCHANGED <<extVars, parseVars, scanFileVars, readable, files, cmdVars, disk, scannerExclude, targetDir,
                 globbed, fIdx, merged>>

\* lines 360-370 (and 398-408): the glob of scanDirectoryForVars for one
\* declaration file d, called with config.exclude
GlobFiles ==
  /\ dpc = "found"
  /\ \E d \in {envFiles[i] : i \in 1..Len(envFiles)}
                \cup {serverlessFiles[i] : i \in 1..Len(serverlessFiles)} :
       /\ targetDir' = Dirname(d)
       /\ globbed' = GlobSources(Dirname(d), config.exclude)
  /\ dpc' = IF globbed' = << >> THEN "merged" ELSE "merging"
  /\ UNCHANGED <<extVars, parseVars, scanFileVars, fsVars, cmdVars, disk, scannerExclude, fIdx, merged>>

\* lines 372-383 (and 410-421): one iteration of `for (const file of files)`
MergeFile ==
  /\ dpc = "merging"
  /\ merged' = MergeVars(merged, globbed[fIdx].path, scanFileOf(globbed[fIdx]))
  /\ fIdx' = fIdx + 1
  /\ dpc' = IF fIdx' > Len(globbed) THEN "merged" ELSE "merging"
  /\ UNCHANGED <<extVars, parseVars, scanFileVars, fsVars, cmdVars, disk, scannerExclude, targetDir, globbed>>

NextDiscover == Construct \/ Discover \/ GlobFiles \/ MergeFile

SpecDiscover == InitDiscover /\ [][NextDiscover]_vars

(***************************************************************************)
(* ServerlessParser.parse.  A YAML value is [kind, tag, data]: a plain     *)
(* scalar, a scalar carrying a CloudFormation tag, or a nested mapping;    *)
(* data is the scalar's text as a sequence of tokens.  A string is a       *)
(* sequence of tokens.                                                     *)
(***************************************************************************)
MaxFns == 2

PlainScalar(text) == [kind |-> "scalar", tag |-> "", data |-> text]

TaggedScalar(tag, text) == [kind |-> "tagged", tag |-> tag, data |-> text]

NestedMapping == [kind |-> "mapping", tag |-> "", data |-> <<"Ref", ":", "Table">>]

\* what yaml.load with CF_SCHEMA constructs for a value: FAILSAFE_SCHEMA keeps
\* a plain scalar as a string; a tagged scalar becomes an object such as
\* {Ref: data} (lines 13-32); a mapping becomes an object
Construct_value(v) ==
  IF v.kind = "scalar" THEN [type |-> "string", str |-> v.data]
  ELSE [type |-> "object", str |-> << >>]

\* String(value) for the constructed value js of the YAML value v: a string
\* is itself, a plain object is "[object Object]"
JsString(v, js) == IF js.type = "string" THEN js.str ELSE <<"[object Object]">>

\* lines 112-120: the prefixes the reference patterns look for
ReferencePrefixes ==
  {"${ssm:", "${aws:reference", "${file(", "${self:custom.", "${opt:", "${env:", "${cf:"}

\* isReference(value)
isReference(valueStr) == \E i \in 1..Len(valueStr) : valueStr[i] \in ReferencePrefixes

\* String.prototype.toUpperCase on the keys of KeyPool
ToUpperCase(key) ==
  IF key = "stage" THEN "STAGE" ELSE IF key = "my-key" THEN "MY-KEY" ELSE key

\* isValidEnvVarName(key): /^[A-Z_][A-Z0-9_]*$/i.test(key)
isValidEnvVarName(key) == IsName(ToUpperCase(key))

\* the function names that are canonical array indices, in ascending numeric order
IndexNames == <<"2", "10">>

IsIndexName(name) == \E i \in 1..Len(IndexNames) : IndexNames[i] = name

\* Object.entries(functions), line 74: own properties whose names are array
\* indices come first, in ascending numeric order, then the other properties
\* in the order the document created them
ObjectEntries(fns) ==
  LET present == SelectSeq(IndexNames, LAMBDA nm : \E i \in 1..Len(fns) : fns[i].name = nm)
      EntryOf(nm) == fns[CHOOSE i \in 1..Len(fns) : fns[i].name = nm]
  IN [k \in 1..Len(present) |-> EntryOf(present[k])]
       \o SelectSeq(fns, LAMBDA f : ~IsIndexName(f.name))

\* the ServerlessEnvEntry of lines 61-66 and 82-87
EnvEntry(key, valueStr, file, funcName) ==
  [key |-> key, valueExpression |-> valueStr, isReference |-> isReference(valueStr),
   source |-> [file |-> file, function |-> funcName]]

ManifestPath == <<"serverless.yml">>

RECURSIVE ProviderLoop(_, _, _)
\* lines 57-68: for (const [key, value] of Object.entries(providerEnv))
ProviderLoop(entries, k, m) ==
  IF k > Len(entries) THEN m
  ELSE LET key == entries[k].key
           valueStr == JsString(entries[k].value, Construct_value(entries[k].value))
       IN IF isValidEnvVarName(key)
          THEN ProviderLoop(entries, k + 1, MapSet(m, key, EnvEntry(key, valueStr, ManifestPath, Null)))
          ELSE ProviderLoop(entries, k + 1, m)

RECURSIVE FunctionLoop(_, _, _, _)
\* lines 77-91: for (const [key, value] of Object.entries(funcEnv))
FunctionLoop(entries, funcName, k, m) ==
  IF k > Len(entries) THEN m
  ELSE LET key == entries[k].key
           valueStr == JsString(entries[k].value, Construct_value(entries[k].value))
       IN IF isValidEnvVarName(key)
          THEN FunctionLoop(entries, funcName, k + 1,
                            SetIfAbsent(m, key, EnvEntry(key, valueStr, ManifestPath, funcName)))
          ELSE FunctionLoop(entries, funcName, k + 1, m)

\* the values of the manifests
ValueOne == PlainScalar(<<"one">>)

ValueSsm == PlainScalar(<<"${ssm:", "/path", "}">>)

ValueRef == TaggedScalar("!Ref", <<"Table">>)

AbsentBlock == [present |-> FALSE, entries |-> << >>]

Block(entries) == [present |-> TRUE, entries |-> entries]

\* the entries of a block over the keys NamePool[1], NamePool[2]: each key is
\* left out or given one of the values
KeyedEntries(values) ==
  {e1 \o e2 :
     e1 \in {<< >>} \cup {<<[key |-> NamePool[1], value |-> v]>> : v \in values},
     e2 \in {<< >>} \cup {<<[key |-> NamePool[2], value |-> v]>> : v \in values}}

\* provider.environment: absent, or a mapping that may end with a key in
\* lower case or with a key that is no variable name
ProviderBlocks ==
  {AbsentBlock}
    \cup {Block(e \o x) :
            e \in KeyedEntries({ValueOne, ValueRef}),
            x \in {<< >>, <<[key |-> "stage", value |-> ValueOne]>>,
                   <<[key |-> "my-key", value |-> ValueOne]>>}}

\* a function's environment: absent, or a mapping with one entry
FunctionBlocks ==
  {AbsentBlock}
    \cup {Block(<<[key |-> k, value |-> v]>>) :
            k \in CodeNames, v \in {ValueOne, ValueSsm, NestedMapping}}

FunctionNames == {"api", "worker", "2"}

RECURSIVE FunctionLists(_)
\* the `functions` mappings with k functions, as the sequence of their
\* entries in document order (a mapping has no duplicate key)
FunctionLists(k) ==
  IF k = 0 THEN {<< >>}
  ELSE {Append(fl, [name |-> nm, environment |-> b]) :
          fl \in FunctionLists(k - 1),
          nm \in FunctionNames,
          b \in FunctionBlocks}

DistinctNames(fl) == \A i, j \in 1..Len(fl) : fl[i].name = fl[j].name => i = j

\* a manifest on disk: missing, unparseable (a provider.environment block
\* followed by text yaml.load rejects), a document that is no mapping (null,
\* a scalar, a sequence), or a mapping
ManifestsUpTo(max) ==
  {[kind |-> kd, provider |-> AbsentBlock, functions |-> << >>] :
      kd \in {"missing", "null", "scalar", "sequence"}}
    \cup {[kind |-> "unparseable",
           provider |-> Block(<<[key |-> NamePool[1], value |-> ValueOne]>>),
           functions |-> << >>]}
    \cup {[kind |-> "mapping", provider |-> pb, functions |-> fl] :
            pb \in ProviderBlocks,
            fl \in {g \in UNION {FunctionLists(k) : k \in 0..max} : DistinctNames(g)}}

LoadsAsObject_always(kind) == TRUE

\* lines 42-52: the file exists, yaml.load returns, and the document passes
\* `!doc || typeof doc !== 'object'` (a sequence is an object)
LoadsAsObject(kind) == kind \in {"sequence", "mapping"}

InitParse ==
  /\ content = << >> /\ envVars = EmptyMap /\ step = 0 /\ readable = TRUE
  /\ files = << >> /\ serverlessFiles = << >> /\ envFiles = << >>
  /\ CmdIdle
  /\ DirIdle
  /\ ExtIdle
  /\ manifest \in ManifestsUpTo(MaxFns)
  /\ ppc = "start" /\ parsed = EmptyMap /\ fnIdx = 1

\* lines 42-44, 46-52 and 94-96: the file does not exist, or yaml.load throws
\* and the catch block logs, or the document is null or a scalar
ParseNothing ==
  /\ ppc = "start"
  /\ ~LoadsAsObject(manifest.kind)
  /\ ppc' = "returned"
  /\ UNCHANGED <<extVars, scanFileVars, fsVars, cmdVars, dirVars, manifest, parsed, fnIdx>>

\* lines 54-69: the provider.environment block (a sequence document has no
\* provider property)
ParseProvider ==
  /\ ppc = "start"
  /\ LoadsAsObject(manifest.kind)
  /\ parsed' = IF manifest.provider.present
               THEN ProviderLoop(manifest.provider.entries, 1, parsed)
               ELSE parsed
  /\ ppc' = IF manifest.functions = << >> THEN "returned" ELSE "functions"
  /\ UNCHANGED <<extVars, scanFileVars, fsVars, cmdVars, dirVars, manifest, fnIdx>>

\* lines 74-92: one iteration of `for (const [funcName, funcConfig] of
\* Object.entries(functions))`
ParseFunction ==
  /\ ppc = "functions"
  /\ \E fn \in {ObjectEntries(manifest.functions)[fnIdx]} :
       parsed' = IF fn.environment.present
                 THEN FunctionLoop(fn.environment.entries, fn.name, 1, parsed)
                 ELSE parsed
  /\ fnIdx' = fnIdx + 1
  /\ ppc' = IF fnIdx' > Len(manifest.functions) THEN "returned" ELSE "functions"
  /\ UNCHANGED <<extVars, scanFileVars, fsVars, cmdVars, dirVars, manifest>>

NextParse == ParseNothing \/ ParseProvider \/ ParseFunction

SpecParse == InitParse /\ [][NextParse]_vars

\* parse has returned: parsed is its result
Parsed == ppc = "returned"

(***************************************************************************)
(* ConfigLoader.loadConfig as a state machine: findConfigFile, then the    *)
(* configuration file (lines 46-67) or package.json (lines 69-94).         *)
(* A JSON document is a record: null, a scalar, or an object with the      *)
(* keys ignoreVars, exclude, strict and detectFallbacks, each of them      *)
(* possibly absent.  A list-valued key holds an array or a number.         *)
(***************************************************************************)
CONFIG_FILE_NAMES == <<".envguardrc.json", ".envguardrc", "envguard.config.json">>

DEFAULT_CONFIG ==
  [kind |-> "config", ignoreVars |-> << >>, exclude |-> << >>, strict |-> FALSE,
   detectFallbacks |-> Undefined]

\* the directories findConfigFile visits: rootDir (level 0) and its parent (level 1)
Levels == 2

Absent == [t |-> "absent", items |-> << >>]

JsArray(items) == [t |-> "array", items |-> items]

JsNumber == [t |-> "number", items |-> << >>]

\* the JSON objects a configuration may be
ConfigObjects(stricts, detects) ==
  {[kind |-> "object", ignoreVars |-> iv, exclude |-> ex, strict |-> st,
    detectFallbacks |-> df] :
      iv \in {Absent, JsArray(<< >>), JsArray(<<NamePool[2]>>), JsNumber},
      ex \in {Absent, JsArray(<<<<"tmp">>>>)},
      st \in stricts, df \in detects}

\* what a configuration file may hold
ConfigContents ==
  {[kind |-> k] : k \in {"unreadable", "malformed", "null", "scalar"}}
    \cup ConfigObjects(OptBool, {Undefined, "false"})

\* what package.json may be: absent, unreadable, malformed, null, or an
\* object without or with the key envguard
PackageContents ==
  {[kind |-> k] : k \in {"absent", "unreadable", "malformed", "null", "plain"}}
    \cup {[kind |-> "package", envguard |-> c] :
            c \in {[kind |-> "scalar"]} \cup ConfigObjects({Undefined, "true"}, {Undefined})}

Throw(name) == [kind |-> "error", name |-> name]

IsThrow(v) == v.kind = "error"

\* lines 101-123: the first existing file, nearest directory first, names in
\* the order of CONFIG_FILE_NAMES
findConfigFile(onDisk) ==
  IF onDisk = {} THEN Null
  ELSE CHOOSE f \in onDisk :
         \A g \in onDisk : f[1] < g[1] \/ (f[1] = g[1] /\ f[2] <= g[2])

\* JSON.parse(fs.readFileSync(path, 'utf-8')) (lines 48-49 and 73)
ReadJson(file) ==
  IF file.kind = "unreadable" THEN Throw("Error")
  ELSE IF file.kind = "malformed" THEN Throw("SyntaxError")
  ELSE file

\* ...(list || []) inside an array literal (lines 56, 60, 81 and 85)
SpreadOrEmpty(list) == IF list.t = "absent" THEN << >> ELSE list.items

\* the object literal of lines 51-62 and 76-87
MergeConfig(userConfig) ==
  IF IsThrow(userConfig) THEN userConfig
  ELSE IF userConfig.kind = "null" THEN Throw("TypeError")
  ELSE IF userConfig.kind = "scalar" THEN DEFAULT_CONFIG
  ELSE IF userConfig.ignoreVars.t = "number" \/ userConfig.exclude.t = "number"
  THEN Throw("TypeError")
  ELSE [kind |-> "config",
        ignoreVars |-> DEFAULT_CONFIG.ignoreVars \o SpreadOrEmpty(userConfig.ignoreVars),
        exclude |-> DEFAULT_CONFIG.exclude \o SpreadOrEmpty(userConfig.exclude),
        strict |-> IF userConfig.strict = Undefined THEN DEFAULT_CONFIG.strict
                   ELSE userConfig.strict = "true",
        detectFallbacks |-> userConfig.detectFallbacks]

Catch_rethrows(outcome, fallback) == outcome

\* try { outcome } catch { fallback } (lines 47-66 and 72-91)
Catch(outcome, fallback) == IF IsThrow(outcome) THEN fallback ELSE outcome

\* lines 73-88 inside the try block: Null when the block falls through
FromPackageJson(file) ==
  LET pkg == ReadJson(file)
  IN IF IsThrow(pkg) THEN pkg
     ELSE IF pkg.kind = "null" THEN Throw("TypeError")
     ELSE IF pkg.kind = "plain" THEN [kind |-> "fallthrough"]
     ELSE MergeConfig(pkg.envguard)

InitLoad ==
  /\ content = << >> /\ envVars = EmptyMap /\ step = 0 /\ readable = TRUE
  /\ files = << >> /\ serverlessFiles = << >> /\ envFiles = << >>
  /\ CmdIdle
  /\ DirIdle
  /\ ParseIdle
  /\ FixIdle
  /\ HookIdle
  /\ configDisk \in {d \in SUBSET ((0..(Levels - 1)) \X (1..Len(CONFIG_FILE_NAMES))) :
                       Cardinality(d) <= 2}
  /\ IF configDisk = {} THEN configContent = NoConfig ELSE configContent \in ConfigContents
  /\ packageJson \in PackageContents
  /\ lpc = "start" /\ loaded = NoConfig

\* line 44: const configPath = this.findConfigFile(rootDir)
FindConfig ==
  /\ lpc = "start"
  /\ lpc' = IF findConfigFile(configDisk) # Null THEN "file" ELSE "package"
  /\ UNCHANGED <<scanFileVars, fsVars, cmdVars, dirVars, parseVars, fixVars, hookVars,
                 configDisk, configContent, packageJson, loaded>>

\* lines 46-67: the configuration file was found
LoadFromFile ==
  /\ lpc = "file"
  /\ \E outcome \in {Catch(MergeConfig(ReadJson(configContent)), DEFAULT_CONFIG)} :
       /\ loaded' = outcome
       /\ lpc' = IF IsThrow(outcome) THEN "threw" ELSE "returned"
  /\ UNCHANGED <<scanFileVars, fsVars, cmdVars, dirVars, parseVars, fixVars, hookVars,
                 configDisk, configContent, packageJson>>

\* lines 69-94: no configuration file, package.json is tried
LoadFromPackageJson ==
  /\ lpc = "package"
  /\ \E outcome \in {IF packageJson.kind = "absent" THEN DEFAULT_CONFIG
                     ELSE Catch(FromPackageJson(packageJson), [kind |-> "fallthrough"])} :
       /\ loaded' = IF outcome.kind = "fallthrough" THEN DEFAULT_CONFIG ELSE outcome
       /\ lpc' = IF IsThrow(outcome) THEN "threw" ELSE "returned"
  /\ UNCHANGED <<scanFileVars, fsVars, cmdVars, dirVars, parseVars, fixVars, hookVars,
                 configDisk, configContent, packageJson>>

NextLoad == FindConfig \/ LoadFromFile \/ LoadFromPackageJson

SpecLoad == InitLoad /\ [][NextLoad]_vars

(***************************************************************************)
(* fixCommand (commands/check.ts lines 15-112) as a state machine: the     *)
(* setup (lines 15-48), one step per flat file (lines 51-107) and the      *)
(* summary (lines 109-111).  Its scanDirectoryForVars iterates what        *)
(* scanFile returns as a collection of names: the scanFile that returns a  *)
(* Set<string> (constants/knownEnvVars.ts lines 163-201).                  *)
(* A template file is [exists, lines]; a line is a comment or NAME=value.  *)
(***************************************************************************)
\* v.trim().split(':')[0].trim() (knownEnvVars.ts line 188)
ItemName(v) == Trim(Split(Trim(v), ":")[1])

RECURSIVE DestructNames(_, _)
\* knownEnvVars.ts lines 185-194: the names of the destructuring patterns from position i on
DestructNames(t, i) ==
  IF i > Len(t) THEN {}
  ELSE IF Match3(t, i) = 0 THEN DestructNames(t, i + 1)
  ELSE LET items == Split(Group3(t, i), ",")
       IN {ItemName(items[k])[1] :
             k \in {h \in 1..Len(items) : IsValidName(ItemName(items[h]))}}
            \cup DestructNames(t, Match3(t, i))

\* knownEnvVars.ts lines 163-201: the Set<string> scanFile returns for a readable file
scanFileNames(t) ==
  (DOMAIN Loop6(t, 1, EmptyMap)) \cup (DOMAIN Loop7(t, 1, EmptyMap)) \cup DestructNames(t, 1)

\* the empty set when the file cannot be read (knownEnvVars.ts lines 196-200)
scanFileNamesOf(f) == IF f.readable THEN scanFileNames(f.text) ELSE {}

\* check.ts lines 107-140: scanDirectoryForVars of fixCommand, name -> locations
FixScanDirectoryForVars(dir, excludePatterns) ==
  LET fs == GlobSources(dir, excludePatterns)
      Having(n) == SelectSeq(fs, LAMBDA f : n \in scanFileNamesOf(f))
  IN [n \in UNION {scanFileNamesOf(fs[k]) : k \in 1..Len(fs)} |->
        [k \in 1..Len(Having(n)) |-> Having(n)[k].path]]

\* check.ts lines 63-73: known runtime variables and ignoreVars are left out
FixFilterUsed(allUsedVars, cfg) ==
  [v \in {w \in DOMAIN allUsedVars : ~isKnownRuntimeVar(w) /\ ~shouldIgnoreVar(w, cfg)} |->
     allUsedVars[v]]

CommentLine(text) == [kind |-> "comment", name |-> "", value |-> text]

EntryLine(name, value) == [kind |-> "entry", name |-> name, value |-> value]

NoTemplate == [exists |-> FALSE, lines |-> << >>]

TemplateFile(lines) == [exists |-> TRUE, lines |-> lines]

\* EnvParser.parseExample: the names a template file documents
DocumentedNames(template) ==
  {template.lines[i].name : i \in {j \in 1..Len(template.lines) : template.lines[j].kind = "entry"}}

\* EnvAnalyzer.generateExampleContent: comment lines and the lines of names
\* still in use are kept in place, names not yet documented are appended
generateExampleContent(usedVars, existing) ==
  LET kept == SelectSeq(existing.lines,
                        LAMBDA l : l.kind = "comment" \/ l.name \in DOMAIN usedVars)
      new == InOrder((DOMAIN usedVars) \ DocumentedNames(existing))
  IN TemplateFile(kept \o [i \in 1..Len(new) |-> EntryLine(new[i], "")])

\* the .env files on disk
FixDisks == {<< >>, <<<<".env">>>>, <<<<".env">>, <<"svc", ".env">>>>}

\* the directories of the .env files of a disk
ScopeDirs(onDisk) == {Dirname(onDisk[i]) : i \in 1..Len(onDisk)}

\* what .env.example may hold before fixCommand runs
TemplatePool ==
  {NoTemplate,
   TemplateFile(<<CommentLine("# keys"), EntryLine(NamePool[2], "1")>>),
   TemplateFile(<<EntryLine(NamePool[1], ""), EntryLine(NamePool[3], "")>>)}

\* the number of times fixCommand is run
MaxFixRuns == 2

InitFix ==
  /\ content = << >> /\ envVars = EmptyMap /\ step = 0 /\ readable = TRUE
  /\ files \in DirTreesUpTo(MaxFiles)
  /\ disk \in FixDisks
  /\ serverlessFiles = << >> /\ envFiles = << >>
  /\ pc = "idle"
  /\ options = [ci |-> FALSE, strictMode |-> FALSE, detectFallbacks |-> TRUE]
  /\ \E ig \in IgnoreSets, cx \in {<< >>, <<<<"tmp">>>>} :
       config = [ignoreVars |-> ig, exclude |-> cx]
  /\ sIdx = 1 /\ eIdx = 1 /\ allIssues = << >> /\ scope = NoScope
  /\ result = NoResult /\ exitCode = -1
  /\ dpc = "idle" /\ scannerExclude = << >>
  /\ targetDir = << >> /\ globbed = << >> /\ fIdx = 1 /\ merged = EmptyMap
  /\ ParseIdle
  /\ LoadIdle
  /\ HookIdle
  /\ templates \in [ScopeDirs(disk) -> TemplatePool]
  /\ fpc = "start" /\ xIdx = 1 /\ fixRuns = 0
  /\ priorTemplates = << >> /\ fixUsed = {} /\ fixResult = "none"

\* lines 15-48: the configuration, the scanner, the discovery of the .env files
FixStart ==
  /\ pc = "idle"
  /\ fpc \in {"start", "returned"}
  /\ fixRuns < MaxFixRuns
  /\ \E found \in {findEnvFiles(CodeScannerExcludes(ScanCommandExcludes(config.exclude)))} :
       /\ envFiles' = found
       /\ IF found = << >>
          THEN /\ fpc' = "returned" /\ fixResult' = "failure"
               /\ fixRuns' = fixRuns + 1
          ELSE /\ fpc' = "loop" /\ fixResult' = "none"
               /\ UNCHANGED fixRuns
  /\ xIdx' = 1
  /\ priorTemplates' = templates
  /\ fixUsed' = {}
  /\ UNCHANGED <<scanFileVars, readable, files, serverlessFiles, cmdVars, dirVars, parseVars,
                 loadVars, hookVars, templates>>

\* lines 51-107: one iteration of the flat-file loop
FixProcessEnv ==
  /\ fpc = "loop"
  /\ xIdx <= Len(envFiles)
  /\ \E dir \in {Dirname(envFiles[xIdx])} :
       \E usedVars \in {FixFilterUsed(FixScanDirectoryForVars(dir, config.exclude), config)} :
          /\ fixUsed' = DOMAIN usedVars
          /\ IF DOMAIN usedVars = {}
             THEN UNCHANGED templates
             ELSE templates' =
                    [templates EXCEPT ![dir] = generateExampleContent(usedVars, templates[dir])]
  /\ xIdx' = xIdx + 1
  /\ UNCHANGED <<scanFileVars, fsVars, cmdVars, dirVars, parseVars, loadVars, hookVars,
                 fpc, fixRuns, priorTemplates, fixResult>>

\* lines 109-111: the summary and the return
FixSummary ==
  /\ fpc = "loop"
  /\ xIdx > Len(envFiles)
  /\ fpc' = "returned"
  /\ fixResult' = "success"
  /\ fixRuns' = fixRuns + 1
  /\ UNCHANGED <<scanFileVars, fsVars, cmdVars, dirVars, parseVars, loadVars, hookVars,
                 templates, xIdx, priorTemplates, fixUsed>>

\* scanCommand is run after fixCommand, on the same tree, with the same
\* configuration, with or without --strict
ScanAfterFix ==
  /\ fpc = "returned"
  /\ StartWith("idle",
               [optCi |-> {Undefined}, optStrict |-> {Undefined, "true"},
                optDetect |-> {Undefined}, cfgStrict |-> {"false"}, cfgDetect |-> {Undefined},
                cfgIgnore |-> {config.ignoreVars}, cfgExclude |-> {config.exclude}])

\* its flat-file loop: .env declares every name, .env.example is the template on disk
ScanProcessEnv ==
  /\ fpc = "returned"
  /\ ProcessEnvWith({VarNames}, {DocumentedNames(templates[Dirname(envFiles[eIdx])])})

NextFix == FixStart \/ FixProcessEnv \/ FixSummary \/ ScanAfterFix \/ ScanProcessEnv \/ Summary

SpecFix == InitFix /\ [][NextFix]_vars

(***************************************************************************)
(* CodeScanner.scan as a state machine: the constructor, the glob of the   *)
(* source files, the loop over them, then the serverless manifests         *)
(***************************************************************************)
RECURSIVE FunctionsLoop(_, _, _)
\* serverlessParser lines 74-92: the loop over Object.entries(functions)
FunctionsLoop(fns, k, m) ==
  IF k > Len(fns) THEN m
  ELSE FunctionsLoop(fns, k + 1,
                     IF fns[k].environment.present
                     THEN FunctionLoop(fns[k].environment.entries, fns[k].name, 1, m)
                     ELSE m)

\* ServerlessParser.parse(filePath) for a file with the content m
ServerlessParse(m) ==
  IF ~LoadsAsObject(m.kind) THEN EmptyMap
  ELSE FunctionsLoop(ObjectEntries(m.functions), 1,
                     IF m.provider.present
                     THEN ProviderLoop(m.provider.entries, 1, EmptyMap)
                     ELSE EmptyMap)

\* codeScanner.ts lines 186-188
scanServerlessFile(m) == ServerlessParse(m)

\* line 64: `${relativePath} (serverless config)`
ServerlessLocation(relativePath) == Append(relativePath, " (serverless config)")

\* lines 59-65: the inner loop `for (const [varName, entry] of vars.entries())`
AddServerlessVars(acc, relativePath, fileVars) ==
  [n \in (DOMAIN acc) \cup (DOMAIN fileVars) |->
     IF n \in DOMAIN fileVars
     THEN [locations |-> (IF n \in DOMAIN acc THEN acc[n].locations ELSE << >>)
                           \o <<ServerlessLocation(relativePath)>>,
           hasFallback |-> IF n \in DOMAIN acc THEN acc[n].hasFallback ELSE FALSE]
     ELSE acc[n]]

RECURSIVE ServerlessLoop(_, _, _, _)
\* lines 57-66: `for (const file of serverlessFiles)`, every file with the content m
ServerlessLoop(found, m, k, acc) ==
  IF k > Len(found) THEN acc
  ELSE ServerlessLoop(found, m, k + 1, AddServerlessVars(acc, found[k], scanServerlessFile(m)))

\* the serverless manifests of the scanned project
ScanManifestPool ==
  {[kind |-> "missing", provider |-> AbsentBlock, functions |-> << >>],
   [kind |-> "mapping", provider |-> AbsentBlock, functions |-> << >>],
   [kind |-> "mapping", provider |-> Block(<<[key |-> NamePool[2], value |-> ValueOne]>>),
    functions |-> << >>],
   [kind |-> "mapping",
    provider |-> Block(<<[key |-> NamePool[1], value |-> ValueOne],
                         [key |-> "stage", value |-> ValueOne]>>),
    functions |-> <<[name |-> "api",
                     environment |-> Block(<<[key |-> NamePool[3], value |-> ValueSsm]>>)]>>]}

InitCodeScan ==
  /\ content = << >> /\ envVars = EmptyMap /\ step = 0 /\ readable = TRUE
  /\ files \in DirTreesUpTo(MaxFiles)
  /\ disk \in DiskSets
  /\ serverlessFiles = << >> /\ envFiles = << >>
  /\ pc = "idle"
  /\ options = [ci |-> FALSE, strictMode |-> FALSE, detectFallbacks |-> TRUE]
  /\ \E cx \in ConfigExcludes : config = [ignoreVars |-> {}, exclude |-> cx]
  /\ sIdx = 1 /\ eIdx = 1 /\ allIssues = << >> /\ scope = NoScope
  /\ result = NoResult /\ exitCode = -1
  /\ dpc = "new" /\ scannerExclude = << >>
  /\ targetDir = << >> /\ globbed = << >> /\ fIdx = 1 /\ merged = EmptyMap
  /\ manifest \in ScanManifestPool
  /\ ppc = "idle" /\ parsed = EmptyMap /\ fnIdx = 1
  /\ ExtIdle

\* lines 27-39: the empty map and the glob of the source files
ScanGlob ==
  /\ dpc = "constructed"
  /\ globbed' = scanGlob(scannerExclude)
  /\ merged' = EmptyMap
  /\ fIdx' = 1
  /\ dpc' = IF globbed' = << >> THEN "serverless" ELSE "files"
  /\ UNCHANGED <<extVars, parseVars, scanFileVars, fsVars, cmdVars, disk, scannerExclude, targetDir>>

\* lines 41-53: one iteration of `for (const file of files)`
ScanSourceFile ==
  /\ dpc = "files"
  /\ merged' = MergeVars(merged, globbed[fIdx].path, scanFileOf(globbed[fIdx]))
  /\ fIdx' = fIdx + 1
  /\ dpc' = IF fIdx' > Len(globbed) THEN "serverless" ELSE "files"
  /\ UNCHANGED <<extVars, parseVars, scanFileVars, fsVars, cmdVars, disk, scannerExclude, targetDir, globbed>>

\* lines 55-68: findServerlessFiles, the loop over the manifests, the return
ScanServerlessFiles ==
  /\ dpc = "serverless"
  /\ serverlessFiles' = findServerlessFiles(scannerExclude)
  /\ merged' = ServerlessLoop(serverlessFiles', manifest, 1, merged)
  /\ dpc' = "scanned"
  /\ UNCHANGED <<extVars, parseVars, scanFileVars, readable, files, envFiles, cmdVars, disk,
                 scannerExclude, targetDir, globbed, fIdx>>

NextCodeScan == Construct \/ ScanGlob \/ ScanSourceFile \/ ScanServerlessFiles

SpecCodeScan == InitCodeScan /\ [][NextCodeScan]_vars

(***************************************************************************)
(* install-hook and uninstall-hook: the files of .git/hooks                *)
(***************************************************************************)
HookFile(text) == [exists |-> TRUE, text |-> text]

\* install-hook.ts lines 101-128: the script, as the pieces of its text
generateHookScript(hookType) ==
  LET hookMessage == IF hookType = "pre-commit" THEN "commit" ELSE "push"
  IN <<"#!/bin/sh\n# EnvGuard ", hookType, " hook\n",
       "# This hook runs envguard to check environment variables before ", hookMessage, "\n",
       "# Run ", "envguard scan --ci", "\nnpx ", "envguard scan --ci", "\n",
       "EXIT_CODE=$?\n", "exit 0\n">>

\* String.prototype.includes for a text made of pieces: needle is one of them
includes(text, needle) == \E i \in 1..Len(text) : text[i] = needle

\* line 80: the test uninstallHookCommand makes before it deletes the file
LooksLikeOurHook(hookContent) ==
  ~(~includes(hookContent, "envguard scan --ci") /\ ~includes(hookContent, "envguard check"))

\* the hook scripts a user may have written
UserHooks ==
  {<<"#!/bin/sh\n", "npm test\n">>,
   <<"#!/bin/sh\n", "npx ", "envguard check", " && npm test\n">>,
   <<"#!/bin/sh\n", "npm run lint && npx ", "envguard scan --ci", "\n">>}

\* the number of hook commands of a behaviour
MaxHookOps == 3

InitHook ==
  /\ content = << >> /\ envVars = EmptyMap /\ step = 0 /\ readable = TRUE
  /\ files = << >> /\ serverlessFiles = << >> /\ envFiles = << >>
  /\ CmdIdle
  /\ DirIdle
  /\ ParseIdle
  /\ LoadIdle
  /\ FixIdle
  /\ gitDir \in BOOLEAN
  /\ hooksDir \in IF gitDir THEN BOOLEAN ELSE {FALSE}
  /\ hooksWritable \in BOOLEAN
  /\ hooks \in IF hooksDir THEN [HOOK_TYPES -> {NoHook} \cup {HookFile(u) : u \in UserHooks}]
               ELSE {[t \in HOOK_TYPES |-> NoHook]}
  /\ hookOrigin = [t \in HOOK_TYPES |-> IF hooks[t].exists THEN "user" ELSE "none"]
  /\ hookBefore = [hooks |-> hooks, origin |-> hookOrigin]
  /\ hookOp = NoHookOp /\ hookExit = -1 /\ hookOps = 0

\* installHookCommand, lines 16-62, called by cli.ts lines 88-98 with the
\* options --type and --force (force is FALSE when the option is not given)
InstallHook ==
  /\ hookOps < MaxHookOps
  /\ \E type \in {Undefined} \cup HOOK_TYPES, force \in BOOLEAN :
       LET hookType == IF type = Undefined THEN "pre-commit" ELSE type
       IN /\ hookOp' = [cmd |-> "install-hook", type |-> hookType, force |-> force]
          /\ IF ~gitDir
             THEN \* lines 22-26
                  /\ hookExit' = 1
                  /\ UNCHANGED <<hooksDir, hooks, hookOrigin>>
             ELSE IF ~hooksDir /\ ~hooksWritable
             THEN \* line 30: mkdirSync throws, cli.ts lines 95-98 exit with 1
                  /\ hookExit' = 1
                  /\ UNCHANGED <<hooksDir, hooks, hookOrigin>>
             ELSE /\ hooksDir' = TRUE
                  /\ IF hooks[hookType].exists /\ ~force
                     THEN \* lines 38-43
                          /\ hookExit' = 1
                          /\ UNCHANGED <<hooks, hookOrigin>>
                     ELSE IF ~hooksWritable
                     THEN \* lines 57-61: writeFileSync throws
                          /\ hookExit' = 1
                          /\ UNCHANGED <<hooks, hookOrigin>>
                     ELSE \* lines 46-56
                          /\ hooks' = [hooks EXCEPT
                                         ![hookType] = HookFile(generateHookScript(hookType))]
                          /\ hookOrigin' = [hookOrigin EXCEPT ![hookType] = "envguard"]
                          /\ hookExit' = 0
  /\ hookBefore' = [hooks |-> hooks, origin |-> hookOrigin]
  /\ hookOps' = hookOps + 1
  /\ UNCHANGED <<scanFileVars, fsVars, cmdVars, dirVars, parseVars, loadVars, fixVars,
                 gitDir, hooksWritable>>

\* uninstallHookCommand, lines 67-96, called by cli.ts lines 104-111
UninstallHook ==
  /\ hookOps < MaxHookOps
  /\ \E type \in {Undefined} \cup HOOK_TYPES :
       LET hookType == IF type = Undefined THEN "pre-commit" ELSE type
       IN /\ hookOp' = [cmd |-> "uninstall-hook", type |-> hookType, force |-> FALSE]
          /\ IF ~hooks[hookType].exists
             THEN \* lines 72-76
                  /\ hookExit' = 0
                  /\ UNCHANGED <<hooks, hookOrigin>>
             ELSE IF ~LooksLikeOurHook(hooks[hookType].text)
             THEN \* lines 80-85
                  /\ hookExit' = 0
                  /\ UNCHANGED <<hooks, hookOrigin>>
             ELSE IF ~hooksWritable
             THEN \* lines 91-95: unlinkSync throws
                  /\ hookExit' = 1
                  /\ UNCHANGED <<hooks, hookOrigin>>
             ELSE \* lines 88-90
                  /\ hooks' = [hooks EXCEPT ![hookType] = NoHook]
                  /\ hookOrigin' = [hookOrigin EXCEPT ![hookType] = "none"]
                  /\ hookExit' = 0
  /\ hookBefore' = [hooks |-> hooks, origin |-> hookOrigin]
  /\ hookOps' = hookOps + 1
  /\ UNCHANGED <<scanFileVars, fsVars, cmdVars, dirVars, parseVars, loadVars, fixVars,
                 gitDir, hooksDir, hooksWritable>>

NextHook == InstallHook \/ UninstallHook

SpecHook == InitHook /\ [][NextHook]_vars

(***************************************************************************)
(* Occurrences of a name in a text, as the claims describe them            *)
(***************************************************************************)
Occurrences(t, n) == {j \in 1..Len(t) : t[j] = n}

\* process.env.n starts at i and is followed, modulo whitespace, by ||, &&, ?? or ?
DottedWithFallbackAt(t, i, n) ==
  /\ Tok(t, i) = PE /\ Tok(t, i + 1) = "." /\ Tok(t, i + 2) = n
  /\ Tok(t, SkipWs(t, i + 3)) \in {"||", "&&", "?"}

\* process.env.n at i is the whole, possibly negated, condition of an if statement
ConditionAt(t, i, n) ==
  /\ Tok(t, i) = PE /\ Tok(t, i + 1) = "." /\ Tok(t, i + 2) = n
  /\ Tok(t, SkipWs(t, i + 3)) = ")"
  /\ \E k \in 1..(i - 1) :
        /\ t[k] = "if"
        /\ Tok(t, SkipWs(t, k + 1)) = "("
        /\ \/ SkipWs(t, SkipWs(t, k + 1) + 1) = i
           \/ /\ Tok(t, SkipWs(t, SkipWs(t, k + 1) + 1)) = "!"
              /\ SkipWs(t, SkipWs(t, SkipWs(t, k + 1) + 1) + 1) = i

\* process.env?.n starts at i
OptionalAt(t, i, n) ==
  Tok(t, i) = PE /\ Tok(t, i + 1) = "?" /\ Tok(t, i + 2) = "." /\ Tok(t, i + 3) = n

\* the token at j is the quoted literal of process.env['...']
BracketAt(t, j) ==
  /\ Tok(t, j - 3) = PE /\ Tok(t, j - 2) = "[" /\ Tok(t, j - 1) = "'"
  /\ Tok(t, j + 1) = "'" /\ Tok(t, j + 2) = "]"

\* the closing bracket of the access whose literal is at j is followed by a fallback operator
BracketFallbackAt(t, j) == BracketAt(t, j) /\ Tok(t, SkipWs(t, j + 3)) \in {"||", "&&", "?"}

RECURSIVE PrevNonWs(_, _)
PrevNonWs(t, j) == IF IsWs(Tok(t, j)) THEN PrevNonWs(t, j - 1) ELSE j

RECURSIVE EntryEnd(_, _)
\* the index of the "," or "}" that ends the destructuring entry containing j
EntryEnd(t, j) == IF j > Len(t) \/ t[j] \in {",", "}"} THEN j ELSE EntryEnd(t, j + 1)

\* the token at j is a property key of a pattern `const { ... } = process.env`
DestructKeyAt(t, j) ==
  /\ Tok(t, PrevNonWs(t, j - 1)) \in {"{", ","}
  /\ \E i \in 1..(j - 1) :
        /\ Match3(t, i) # 0
        /\ BraceOpen(t, i) < j
        /\ j < FirstClose(t, BraceOpen(t, i) + 1)

\* the entry whose key is at j carries a default value
EntryHasDefault(t, j) == \E k \in (j + 1)..(EntryEnd(t, j) - 1) : t[k] = "="

\* some occurrence of n is guarded under one of the detection rules
GuardedOccurrence(t, n) ==
  \/ \E i \in 1..Len(t) : DottedWithFallbackAt(t, i, n)
  \/ \E i \in 1..Len(t) : ConditionAt(t, i, n)
  \/ \E i \in 1..Len(t) : OptionalAt(t, i, n)
  \/ \E j \in Occurrences(t, n) : DestructKeyAt(t, j) /\ EntryHasDefault(t, j)
  \/ \E j \in Occurrences(t, n) : BracketFallbackAt(t, j)

(***************************************************************************)
(* Claims about scanFile                                                   *)
(***************************************************************************)

\* C5: a dotted reference process.env.NAME immediately followed (modulo
\* whitespace) by ||, &&, ?? or ? makes scanFile return NAME mapped to
\* guarded = true, whatever else the text contains.
C5_DottedFallbackIsGuarded ==
  Returned =>
    \A n \in CodeNames : \A i \in 1..Len(content) :
      DottedWithFallbackAt(content, i, n) => MapHas(envVars, n) /\ envVars[n] = TRUE

\* C5 witness: a returned scan of a text that has a dotted reference with a
\* fallback operator and also a bare or unguarded occurrence of the same name.
C5_Witness ==
  /\ Returned
  /\ \E n \in CodeNames :
       /\ \E i \in 1..Len(content) : DottedWithFallbackAt(content, i, n)
       /\ \E j \in Occurrences(content, n) :
            Tok(content, j - 1) = "." /\ Tok(content, j + 1) = ";"
       /\ envVars[n] = TRUE

\* C6 (as claimed): when the only references to NAME are bracket accesses with
\* a quoted literal, scanFile returns NAME guarded if a closing bracket is
\* followed (modulo whitespace) by ||, &&, ?? or ?, and bare otherwise.
C6_BracketGuardedIffFallback ==
  Returned =>
    \A n \in CodeNames :
      (Occurrences(content, n) # {} /\ \A j \in Occurrences(content, n) : BracketAt(content, j))
        => /\ MapHas(envVars, n)
           /\ envVars[n] = (\E j \in Occurrences(content, n) : BracketFallbackAt(content, j))

C8_OptionalChainingIsGuarded ==
  Returned =>
    \A n \in CodeNames : \A i \in 1..Len(content) :
      OptionalAt(content, i, n) => MapHas(envVars, n) /\ envVars[n] = TRUE

\* C9: a name whose reference is the whole, possibly negated, condition of an
\* if statement is returned by scanFile as guarded, for any text.
C9_ConditionIsGuarded ==
  Returned =>
    \A n \in CodeNames : \A i \in 1..Len(content) :
      ConditionAt(content, i, n) => MapHas(envVars, n) /\ envVars[n] = TRUE

\* C9 witness: a returned scan of a text with a negated if-condition on a name
\* that is also destructured without default.
C9_Witness ==
  /\ Returned
  /\ \E n \in CodeNames : \E i \in 1..Len(content) :
       /\ ConditionAt(content, i, n)
       /\ Tok(content, i - 1) = "!"
       /\ \E j \in Occurrences(content, n) : DestructKeyAt(content, j) /\ ~EntryHasDefault(content, j)
       /\ envVars[n] = TRUE

\* C10 (as claimed): for every name in the result, the returned flag is the
\* logical OR over all occurrences of the name: true as soon as one
\* occurrence is guarded under a detection rule, in whatever order.
C10_GuardedIsOrOfOccurrences ==
  Returned =>
    \A n \in CodeNames :
      /\ GuardedOccurrence(content, n) => MapHas(envVars, n)
      /\ MapHas(envVars, n) => envVars[n] = GuardedOccurrence(content, n)

(***************************************************************************)
(* Claims about the reconciliation of scanCommand                          *)
(***************************************************************************)
\* the positions of the issues of the given type for name n
IssuesFor(issues, type, n) ==
  {i \in 1..Len(issues) : issues[i].type = type /\ issues[i].varName = n}

\* a reconciliation has been run and scope holds its inputs and outputs
Reconciled == scope.kind \in {"serverless", "env"}

\* n is on the allowlist: the static registry or the configured ignoreVars
Allowlisted(n) == n \in KNOWN_RUNTIME_VARS \/ n \in config.ignoreVars

UsedIn(sc, n) == n \in DOMAIN sc.allUsed

\* C1: in every reconciliation, each name used in the scope's code, not
\* declared and not suppressed by the allowlist yields exactly one `missing`
\* issue, of severity `error` exactly when detectFallbacks is off or the
\* aggregated hasFallback is false, `warning` otherwise.
C1_MissingSeverity ==
  Reconciled =>
    \A n \in VarNames :
      (UsedIn(scope, n) /\ n \notin scope.declared
         /\ ~(~options.strictMode /\ Allowlisted(n)))
        => /\ Cardinality(IssuesFor(scope.issues, "missing", n)) = 1
           /\ \A i \in IssuesFor(scope.issues, "missing", n) :
                scope.issues[i].severity =
                  IF ~options.detectFallbacks \/ ~scope.allUsed[n].hasFallback
                  THEN "error" ELSE "warning"

\* C1 witness: a manifest reconciliation with fallback detection off that
\* reports a name used with a fallback as `error`, next to a second missing name.
C1_Witness ==
  /\ scope.kind = "serverless"
  /\ ~options.detectFallbacks
  /\ \E n1, n2 \in VarNames :
       /\ n1 # n2
       /\ UsedIn(scope, n1) /\ scope.allUsed[n1].hasFallback /\ n1 \notin scope.declared
       /\ UsedIn(scope, n2) /\ n2 \notin scope.declared
       /\ \E i \in IssuesFor(scope.issues, "missing", n1) : scope.issues[i].severity = "error"
       /\ IssuesFor(scope.issues, "missing", n2) # {}

\* C2: an allowlisted name used in code but not declared yields, in
\* non-strict mode, no `missing` issue and one entry of the skipped list under
\* its category (AWS_REGION under "AWS Lambda", a configured name under
\* "Custom (from config)"); in strict mode it yields a `missing` issue and
\* nothing is skipped.
C2_AllowlistSkipsOrStrictReports ==
  Reconciled =>
    /\ options.strictMode => scope.skipped = {}
    /\ \A n \in VarNames :
         (UsedIn(scope, n) /\ n \notin scope.declared /\ Allowlisted(n))
           => IF options.strictMode
              THEN Cardinality(IssuesFor(scope.issues, "missing", n)) = 1
              ELSE /\ IssuesFor(scope.issues, "missing", n) = {}
                   /\ Cardinality({e \in scope.skipped : e.varName = n}) = 1
                   /\ \A e \in scope.skipped :
                        e.varName = n =>
                          /\ e.category # Null
                          /\ n \in config.ignoreVars => e.category = "Custom (from config)"
                          /\ (n = "AWS_REGION" /\ n \notin config.ignoreVars)
                               => e.category = "AWS Lambda"

\* C2 witness: a non-strict flat-file reconciliation in which AWS_REGION is
\* used, undeclared and skipped under "AWS Lambda" while another name is missing.
C2_Witness ==
  /\ scope.kind = "env"
  /\ ~options.strictMode
  /\ UsedIn(scope, "AWS_REGION") /\ "AWS_REGION" \notin scope.declared
  /\ [varName |-> "AWS_REGION", category |-> "AWS Lambda"] \in scope.skipped
  /\ \E i \in 1..Len(scope.issues) : scope.issues[i].type = "missing"

C4_UnusedExactlyDeclaredUnreferenced ==
  Reconciled =>
    \A n \in VarNames :
      /\ Cardinality(IssuesFor(scope.issues, "unused", n)) =
           IF n \in scope.declared /\ ~UsedIn(scope, n) THEN 1 ELSE 0
      /\ \A i \in IssuesFor(scope.issues, "unused", n) : scope.issues[i].severity = "info"

\* What scanCommand does about `unused`: every `unused` issue has severity
\* `info` and there is at most one per name.  In strict mode, and for names
\* off the allowlist, a name yields one exactly when it is declared and
\* referenced by no source file.  In non-strict mode a declared allowlisted
\* name yields none in a manifest scope and exactly one in a flat-file scope,
\* referenced or not.
C4_UnusedAmended ==
  Reconciled =>
    \A n \in VarNames :
      /\ \A i \in IssuesFor(scope.issues, "unused", n) : scope.issues[i].severity = "info"
      /\ Cardinality(IssuesFor(scope.issues, "unused", n)) =
           IF n \notin scope.declared THEN 0
           ELSE IF options.strictMode \/ ~Allowlisted(n)
                THEN (IF UsedIn(scope, n) THEN 0 ELSE 1)
           ELSE IF scope.kind = "env" THEN 1 ELSE 0

\* C4 failing input: a non-strict flat-file reconciliation in which a declared
\* allowlisted name is referenced by a source file and still reported unused,
\* next to a declared plain name that is referenced and not reported.
C4_Witness ==
  /\ scope.kind = "env"
  /\ ~options.strictMode
  /\ \E n1, n2 \in scope.declared :
       /\ Allowlisted(n1) /\ UsedIn(scope, n1)
       /\ ~Allowlisted(n2) /\ UsedIn(scope, n2)
       /\ Cardinality(IssuesFor(scope.issues, "unused", n1)) = 1
       /\ IssuesFor(scope.issues, "unused", n2) = {}

(***************************************************************************)
(* Claims about the rule sequence of scanFile and the names it returns     *)
(***************************************************************************)
\* C11: while scanFile applies its seven patterns to one file, a name whose
\* entry is guarded (true) keeps its entry and the entry stays guarded: no
\* later pattern sets it back to bare (false).
C11_GuardedNeverDowngraded ==
  [][\A n \in DOMAIN envVars : envVars[n] => (n \in DOMAIN envVars' /\ envVars'[n])]_vars

\* C11 witness: all seven patterns have run, a name is guarded, and the text
\* also holds a bare dotted access of that name, which pattern 6 matched.
C11_Witness ==
  /\ step = 7
  /\ \E n \in DOMAIN envVars :
       /\ envVars[n]
       /\ \E i \in 1..Len(content) :
            /\ Match6(content, i) # 0 /\ content[i + 2] = n
            /\ Tok(content, i + 3) = ";"

\* C12: every name scanFile returns matches ^[A-Z_][A-Z0-9_]*$ and is the
\* complete identifier of some access in the text: the text holds the name
\* at a place where the identifier does not continue with a further character.
C12_NamesAreCompleteIdentifiers ==
  Returned =>
    \A n \in DOMAIN envVars :
      /\ IsName(n)
      /\ \E j \in Occurrences(content, n) : Tok(content, j + 1) # "x"

(***************************************************************************)
(* Claims about discovery and aggregation                                  *)
(***************************************************************************)
\* the relative path is one of the locations recorded for name n in map m
InLocations(m, n, path) ==
  n \in DOMAIN m /\ \E i \in 1..Len(m[n].locations) : m[n].locations[i] = path

\* scanDirectoryForVars has returned: merged is its result
Merged == dpc = "merged"

\* C13: when a source file of the scope cannot be read the scan of the scope
\* still completes; the unreadable file contributes no reference, and every
\* name each readable file of the scope references is aggregated with that
\* file as a location.
C13_UnreadableFileIsSkipped ==
  Merged =>
    \A k \in 1..Len(globbed) :
      IF globbed[k].readable
      THEN \A n \in DOMAIN scanFile(globbed[k].text) : InLocations(merged, n, globbed[k].path)
      ELSE \A n \in DOMAIN merged : ~InLocations(merged, n, globbed[k].path)

\* C13 witness: the scope held an unreadable file followed by a readable one
\* with an access, and the later file's name was aggregated.
C13_Witness ==
  /\ Merged
  /\ \E k1, k2 \in 1..Len(globbed) :
       /\ k1 < k2 /\ ~globbed[k1].readable /\ globbed[k2].readable
       /\ \E n \in DOMAIN merged : InLocations(merged, n, globbed[k2].path)

(***************************************************************************)
(* Claims about ServerlessParser.parse                                     *)
(***************************************************************************)
\* the environment blocks of the manifest in document order: the provider's,
\* then each function's; owner is Null for the provider, else the function name
BlocksInDocumentOrder ==
  <<[owner |-> Null, block |-> manifest.provider]>>
    \o [i \in 1..Len(manifest.functions) |->
          [owner |-> manifest.functions[i].name, block |-> manifest.functions[i].environment]]

\* the block declares the key
Declares(block, key) ==
  block.present /\ \E i \in 1..Len(block.entries) : block.entries[i].key = key

\* the value the block gives the key
ValueIn(block, key) ==
  block.entries[CHOOSE i \in 1..Len(block.entries) : block.entries[i].key = key].value

\* the index of the first block, in document order, that declares the key
FirstDeclaring(key) ==
  CHOOSE b \in 1..Len(BlocksInDocumentOrder) :
    /\ Declares(BlocksInDocumentOrder[b].block, key)
    /\ \A c \in 1..(b - 1) : ~Declares(BlocksInDocumentOrder[c].block, key)

\* C14: for every name parse returns, the value expression and the source
\* are those of the first block that declares the name, the blocks taken
\* provider first and then the functions in document order.
C14_FirstWinsInDocumentOrder ==
  (Parsed /\ manifest.kind = "mapping") =>
    \A key \in DOMAIN parsed :
      LET first == BlocksInDocumentOrder[FirstDeclaring(key)]
          v == ValueIn(first.block, key)
      IN /\ parsed[key].valueExpression = JsString(v, Construct_value(v))
         /\ parsed[key].source = [file |-> ManifestPath, function |-> first.owner]

\* the literal textual form of a value in the document
LiteralForm(v) == IF v.kind = "tagged" THEN <<v.tag>> \o v.data ELSE v.data

\* the value is a structured expression: a tagged intrinsic or a nested mapping
Structured(v) == v.kind \in {"tagged", "mapping"}

\* the block of the manifest an entry of the result names as its source
BlockOf(owner) ==
  IF owner = Null THEN manifest.provider
  ELSE manifest.functions[CHOOSE i \in 1..Len(manifest.functions) :
                            manifest.functions[i].name = owner].environment

\* C15: a name whose value is a structured expression is kept, and the value
\* expression stored for it is the literal textual form of the expression.
C15_StructuredValueKeptLiterally ==
  (Parsed /\ manifest.kind = "mapping") =>
    /\ \A b \in 1..Len(BlocksInDocumentOrder) :
         \A i \in 1..Len(BlocksInDocumentOrder[b].block.entries) :
           LET e == BlocksInDocumentOrder[b].block.entries[i]
           IN (Structured(e.value) /\ isValidEnvVarName(e.key)) => e.key \in DOMAIN parsed
    /\ \A key \in DOMAIN parsed :
         LET v == ValueIn(BlockOf(parsed[key].source.function), key)
         IN Structured(v) => parsed[key].valueExpression = LiteralForm(v)

\* C16: parse returns for every manifest, and for a missing file, an
\* unparseable document or a document that is not a mapping what it returns
\* is the empty map.
C16_UnusableManifestGivesEmptyMap ==
  /\ ppc \in {"start", "functions", "returned"}
  /\ (Parsed /\ manifest.kind # "mapping") => parsed = EmptyMap

\* C16 witness: parse has returned for a document yaml.load rejects although
\* its text holds a provider.environment entry.
C16_Witness ==
  /\ Parsed
  /\ manifest.kind = "unparseable"
  /\ manifest.provider.entries # << >>
  /\ parsed = EmptyMap

\* the files of fs that reference name n, in the order of fs
Contributing(fs, n) == SelectSeq(fs, LAMBDA f : n \in DOMAIN scanFileOf(f))

\* the orders in which the files of fs can be merged
MergeOrders(fs) ==
  {[i \in 1..Len(fs) |-> fs[p[i]]] :
     p \in {q \in [1..Len(fs) -> 1..Len(fs)] : \A i, j \in 1..Len(fs) : q[i] = q[j] => i = j}}

\* C17: the aggregate has a record for exactly the names some file of the
\* scope references; a record's hasFallback is the OR of the guarded flags
\* of the contributing files, the same for every order in which the files
\* are merged; its locations are the contributing files' relative paths in
\* merge order.
C17_MergeIsOrOfFlags ==
  Merged =>
    /\ DOMAIN merged = {n \in CodeNames : Contributing(globbed, n) # << >>}
    /\ \A n \in DOMAIN merged :
         /\ merged[n].hasFallback =
              (\E k \in 1..Len(globbed) :
                  n \in DOMAIN scanFileOf(globbed[k]) /\ scanFileOf(globbed[k])[n])
         /\ merged[n].locations =
              [i \in 1..Len(Contributing(globbed, n)) |-> Contributing(globbed, n)[i].path]
         /\ \A fs \in MergeOrders(globbed) :
              LET other == MergeFiles(fs, 1, EmptyMap)
              IN /\ other[n].hasFallback = merged[n].hasFallback
                 /\ other[n].locations =
                      [i \in 1..Len(Contributing(fs, n)) |-> Contributing(fs, n)[i].path]

\* C17 witness: a name is referenced with a fallback in one file and bare in
\* a file merged after it, and the aggregate says it has a fallback.
C17_Witness ==
  /\ Merged
  /\ \E n \in DOMAIN merged :
       /\ merged[n].hasFallback
       /\ Len(merged[n].locations) = 2
       /\ \E k1, k2 \in 1..Len(globbed) :
            /\ k1 < k2
            /\ n \in DOMAIN scanFileOf(globbed[k1]) /\ scanFileOf(globbed[k1])[n]
            /\ n \in DOMAIN scanFileOf(globbed[k2]) /\ ~scanFileOf(globbed[k2])[n]

\* sequence a is a prefix of sequence b
IsPrefix(a, b) == Len(a) <= Len(b) /\ SubSeq(b, 1, Len(a)) = a

\* no element occurs twice in the sequence
NoDuplicates(sq) == \A i, j \in 1..Len(sq) : sq[i] = sq[j] => i = j

\* C18: while the files of a scope are merged, every name keeps its one
\* record, a record's hasFallback never goes from true to false, its
\* locations only grow by appending, and no path is listed twice for a name.
C18_MergeIsMonotonic ==
  /\ [](\A n \in DOMAIN merged : NoDuplicates(merged[n].locations))
  /\ [][\A n \in DOMAIN merged :
          /\ n \in DOMAIN merged'
          /\ merged[n].hasFallback => merged'[n].hasFallback
          /\ IsPrefix(merged[n].locations, merged'[n].locations)]_vars

\* C18 witness: in the middle of the merge a name already has a fallback and
\* the file to be merged next references it bare.
C18_Witness ==
  /\ dpc = "merging"
  /\ fIdx = 2
  /\ \E n \in DOMAIN merged :
       /\ merged[n].hasFallback
       /\ n \in DOMAIN scanFileOf(globbed[fIdx]) /\ ~scanFileOf(globbed[fIdx])[n]

\* the path lies in a directory named nm, at any depth
UnderDirNamed(path, nm) == \E i \in 1..(Len(path) - 1) : path[i] = nm

\* the source file is excluded from aggregation: it lies under node_modules,
\* dist, build or .git, or under a directory the configuration names, or a
\* wildcard pattern of the configuration matches it
ExcludedSource(path) ==
  \/ \E nm \in {"node_modules", "dist", "build", ".git"} : UnderDirNamed(path, nm)
  \/ \E i \in 1..Len(config.exclude) :
       IF IncludesStar(config.exclude[i])
       THEN GlobMatch(config.exclude[i], path)
       ELSE Len(config.exclude[i]) = 1 /\ UnderDirNamed(path, config.exclude[i][1])

\* the directory of the file is D or a subdirectory of D
AtOrBelowDir(path, D) ==
  Len(path) > Len(D) /\ \A i \in 1..Len(D) : path[i] = D[i]

\* the set of the elements of a sequence
Range(sq) == {sq[i] : i \in 1..Len(sq)}

Constructed == dpc \in {"constructed", "found", "merging", "merged"}

\* findEnvFiles and findServerlessFiles have returned
Found == dpc \in {"found", "merging", "merged"}

\* the path lies under a node_modules or a .git directory
UnderAlwaysExcluded(path) == UnderDirNamed(path, "node_modules") \/ UnderDirNamed(path, ".git")

\* C20: whatever exclude list the CodeScanner is constructed with, its
\* exclusion list holds node_modules and .git, no flat file, manifest or
\* source file under such a directory is discovered, and each pattern is
\* normalised: one without '*' becomes **/<name>/**, one with '*' is used as is.
C20_AlwaysExcluded ==
  /\ Constructed =>
       /\ {<<"node_modules">>, <<".git">>} \subseteq Range(scannerExclude)
       /\ \A i \in 1..Len(scannerExclude) :
            NormalizeAll(scannerExclude)[i] =
              IF \E j \in 1..Len(scannerExclude[i]) : scannerExclude[i][j] \in {"*", "**"}
              THEN scannerExclude[i]
              ELSE <<"**">> \o scannerExclude[i] \o <<"**">>
       /\ \A f \in Range(scanGlob(scannerExclude)) : ~UnderAlwaysExcluded(f.path)
  /\ Found =>
       /\ \A d \in Range(envFiles) \cup Range(serverlessFiles) : ~UnderAlwaysExcluded(d)
       /\ \A d \in Range(disk) :
            (~UnderAlwaysExcluded(d) /\ \A i \in 1..Len(scannerExclude) :
                                           ~GlobMatch(NormalizePattern(scannerExclude[i]), d))
              => d \in Range(envFiles) \cup Range(serverlessFiles)
  /\ \A f \in Range(globbed) : ~UnderAlwaysExcluded(f.path)

\* C20 witness: the scanner was constructed with an empty list, a flat file
\* under node_modules is on disk and was not discovered, and another flat
\* file was.
C20_Witness ==
  /\ Found
  /\ scannerExclude = <<<<"node_modules">>, <<".git">>>>
  /\ <<"svc", "node_modules", "pkg", ".env">> \in Range(disk)
  /\ <<"svc", "node_modules", "pkg", ".env">> \notin Range(envFiles)
  /\ <<".env">> \in Range(envFiles)

(***************************************************************************)
(* Claims about the result and the exit status of scanCommand              *)
(***************************************************************************)
\* C21: a run of scanCommand that returns a result object returns
\* success = TRUE exactly when it collected no issue, and the returned list
\* holds every collected issue
C21_SuccessIffNoIssues ==
  pc = "returned" =>
    /\ result.success <=> (allIssues = << >>)
    /\ result.issues = allIssues

\* a run of scanCommand that has ended, by a return or by process.exit
Finished == pc \in {"returned", "exited"}

AllScopesProcessed == sIdx > Len(serverlessFiles) /\ eIdx > Len(envFiles)

\* C22: in CI mode the run ends in process.exit(1) exactly when it collected
\* at least one issue, of whatever severity, and only after every manifest
\* and every flat file has been processed; with no issue it returns
\* without exiting, and outside CI mode it never exits
C22_CiExitIffIssues ==
  /\ (exitCode # -1) <=> (pc = "exited")
  /\ pc = "exited" => options.ci /\ exitCode = 1 /\ AllScopesProcessed
  /\ Finished /\ options.ci => ((pc = "exited") <=> (allIssues # << >>))
  /\ Finished /\ options.ci /\ allIssues = << >> => pc = "returned" /\ exitCode = -1

\* a CI run exited although every collected issue has severity info
C22_Witness ==
  /\ pc = "exited" /\ options.ci /\ exitCode = 1
  /\ allIssues # << >>
  /\ \A i \in DOMAIN allIssues : allIssues[i].severity = "info"
  /\ Len(serverlessFiles) + Len(envFiles) = 2

(***************************************************************************)
(* Claims about ConfigLoader.loadConfig                                    *)
(***************************************************************************)
\* C23: loadConfig never throws; it returns the default configuration when
\* the configuration file it found is unreadable or is not valid JSON, and
\* when no configuration file exists and package.json is not valid JSON
C23_LoadConfigFallsBackToDefaults ==
  /\ lpc # "threw"
  /\ lpc = "returned" => loaded.kind = "config"
  /\ lpc = "returned" /\ configDisk # {} /\ configContent.kind \in {"unreadable", "malformed"}
       => loaded = DEFAULT_CONFIG
  /\ lpc = "returned" /\ configDisk = {} /\ packageJson.kind = "malformed"
       => loaded = DEFAULT_CONFIG
  /\ DEFAULT_CONFIG.ignoreVars = << >> /\ DEFAULT_CONFIG.exclude = << >>
       /\ DEFAULT_CONFIG.strict = FALSE

\* loadConfig returned after reading a configuration file that is not valid JSON
C23_Witness ==
  /\ lpc = "returned" /\ configDisk # {} /\ configContent.kind = "malformed"
  /\ loaded = DEFAULT_CONFIG

(***************************************************************************)
(* Claims about fixCommand                                                 *)
(***************************************************************************)
\* fixCommand has just processed the flat file of directory dir
FixProcessed(dir) ==
  /\ fpc = "loop" /\ xIdx > 1 /\ xIdx - 1 <= Len(envFiles)
  /\ dir = Dirname(envFiles[xIdx - 1])

\* C24: once fixCommand has processed a flat file, the template next to it
\* documents no name outside the used variables of that scope, whatever the
\* template held before and whatever the used variables are
C24_TemplateDropsUnusedNames ==
  \A dir \in DOMAIN templates :
    FixProcessed(dir) => DocumentedNames(templates[dir]) \subseteq fixUsed

(***************************************************************************)
(* Claims about the flat-file reconciliation of scanCommand                *)
(***************************************************************************)
\* C25: in a flat-file reconciliation a name yields an `undocumented` issue
\* exactly when it is used in the scope, declared in the flat file and not
\* documented by the template; the issue has severity `info` when
\* detectFallbacks is on and the usage is guarded, `warning` otherwise
C25_UndocumentedExactlyUsedDeclaredAbsent ==
  scope.kind = "env" =>
    \A n \in VarNames \cup CodeNames :
      /\ Cardinality(IssuesFor(scope.issues, "undocumented", n)) =
           IF UsedIn(scope, n) /\ n \in scope.declared /\ n \notin scope.example
           THEN 1 ELSE 0
      /\ \A i \in IssuesFor(scope.issues, "undocumented", n) :
           scope.issues[i].severity =
             IF options.detectFallbacks /\ scope.allUsed[n].hasFallback
             THEN "info" ELSE "warning"

\* C26: in strict and in non-strict mode, in a manifest scope and in a
\* flat-file scope, a name that the scope's declaration source declares and
\* that a source file of the scope references yields no `unused` issue,
\* whether or not it is on the allowlist
C26_DeclaredAndUsedNeverUnused ==
  Reconciled =>
    \A n \in VarNames \cup CodeNames :
      (n \in scope.declared /\ UsedIn(scope, n))
        => IssuesFor(scope.issues, "unused", n) = {}

(***************************************************************************)
(* Claims about the manifest reconciliation of scanCommand                 *)
(***************************************************************************)
SkippedEntries(n) == {e \in scope.skipped : e.varName = n}

\* C27: in a manifest reconciliation every name that is used in code and not
\* declared in the manifest is either reported `missing` or listed as
\* skipped under a category, never both and never neither; the registry
\* test and the category lookup agree on every name, and a name of
\* ignoreVars is listed under 'Custom (from config)'
C27_UsedUndeclaredIsMissingOrSkipped ==
  /\ \A v \in KNOWN_RUNTIME_VARS \cup VarNames \cup CodeNames :
       isKnownRuntimeVar(v) <=> (getRuntimeVarCategory(v) # Null)
  /\ scope.kind = "serverless" =>
       \A n \in VarNames \cup CodeNames :
         /\ (UsedIn(scope, n) /\ n \notin scope.declared)
              => /\ Cardinality(IssuesFor(scope.issues, "missing", n))
                      + Cardinality(SkippedEntries(n)) = 1
                 /\ \A e \in SkippedEntries(n) :
                      /\ e.category # Null
                      /\ n \in config.ignoreVars => e.category = "Custom (from config)"
         /\ ~(UsedIn(scope, n) /\ n \notin scope.declared) => SkippedEntries(n) = {}

\* a non-strict manifest reconciliation in which one used, undeclared name
\* is skipped as a registry name and another one is reported missing
C27_Witness ==
  /\ scope.kind = "serverless"
  /\ ~options.strictMode
  /\ \E n1, n2 \in DOMAIN scope.allUsed :
       /\ n1 \notin scope.declared /\ n2 \notin scope.declared
       /\ n1 \in KNOWN_RUNTIME_VARS /\ n1 \notin config.ignoreVars
       /\ Cardinality(SkippedEntries(n1)) = 1 /\ IssuesFor(scope.issues, "missing", n1) = {}
       /\ SkippedEntries(n2) = {} /\ Cardinality(IssuesFor(scope.issues, "missing", n2)) = 1

\* C28: once fixCommand has run, scanCommand over the same sources and the
\* same configuration reports no `undocumented` issue for a flat-file scope,
\* with and without --strict; and a second run of fixCommand leaves every
\* template as the first run left it
C28_FixThenScanIsClean ==
  /\ (fixRuns >= 1 /\ scope.kind = "env") =>
       \A i \in 1..Len(scope.issues) : scope.issues[i].type # "undocumented"
  /\ (fixRuns = MaxFixRuns /\ fpc = "returned") => templates = priorTemplates

\* the name n is extracted from the source file f
ExtractedIn(f, n) == n \in DOMAIN scanFileOf(f)

\* C29: every name of the map CodeScanner.scan returns is extracted from at
\* least one source file, and every one of its locations is the relative
\* path of a source file the name is extracted from; a name that only a
\* manifest declares is not in the map
C29_ScanReportsOnlySourceReferences ==
  dpc = "scanned" =>
    \A n \in DOMAIN merged :
      /\ \E i \in 1..Len(files) : ExtractedIn(files[i], n)
      /\ \A j \in 1..Len(merged[n].locations) :
           \E i \in 1..Len(files) :
             files[i].path = merged[n].locations[j] /\ ExtractedIn(files[i], n)

\* the last hook command was an install without --force
InstalledWithoutForce == hookOp.cmd = "install-hook" /\ ~hookOp.force

\* install without --force found a hook of its type: the file is as it was
\* and the exit status is 1
InstallKeepsExisting ==
  (InstalledWithoutForce /\ hookBefore.hooks[hookOp.type].exists) =>
    /\ hooks[hookOp.type] = hookBefore.hooks[hookOp.type]
    /\ hookExit = 1

\* a hook file envguard did not write is as it was after an install without
\* --force and after an uninstall
UserHooksUntouched ==
  (InstalledWithoutForce \/ hookOp.cmd = "uninstall-hook") =>
    \A t \in HOOK_TYPES :
      hookBefore.origin[t] = "user" => hooks[t] = hookBefore.hooks[t]

\* uninstall has deleted a file only if envguard had installed it
UninstallDeletesOnlyOurs ==
  (hookOp.cmd = "uninstall-hook" /\ hookBefore.hooks[hookOp.type].exists
     /\ ~hooks[hookOp.type].exists) =>
    hookBefore.origin[hookOp.type] = "envguard"

\* uninstall of a type whose hook envguard installed removes the file
UninstallRemovesOurs ==
  (hookOp.cmd = "uninstall-hook" /\ hookBefore.origin[hookOp.type] = "envguard") =>
    ~hooks[hookOp.type].exists

\* C30: after any sequence of install-hook without --force and uninstall-hook,
\* a hook file that envguard did not write is neither overwritten nor
\* deleted: install without --force leaves an existing hook as it is and
\* exits with status 1, uninstall deletes a hook only when envguard installed
\* it, and a hook envguard installed is removed by an uninstall of its type
C30_ForeignHooksAreSafe ==
  /\ InstallKeepsExisting
  /\ UserHooksUntouched
  /\ UninstallDeletesOnlyOurs
  /\ UninstallRemovesOurs

====
